---- MODULE Spec2Model ----
(***************************************************************************)
(* The engine session protocol layer of chess-prep (src/src/engine.rs):    *)
(* EngineSession::start, analyze / analyze_multipv, the Drop of a session, *)
(* the info-line parser and the MultiPV aggregator.                        *)
(*                                                                         *)
(* A line of engine output is the sequence of its whitespace-separated     *)
(* tokens (what line.trim() followed by split_whitespace() yields).  The   *)
(* engine is a black box: every blocking read returns any line of          *)
(* EngineLines, end-of-stream or an I/O error, and every write succeeds    *)
(* or fails.  One action is one blocking I/O operation together with the   *)
(* computation that follows it up to the next I/O operation.               *)
(*                                                                         *)
(* Option<T> is modelled as a set: None is {} and Some(v) is {v}.          *)
(***************************************************************************)
EXTENDS Integers, Sequences, FiniteSets, TLC

VARIABLES
    pc,            \* position of the caller / of the call in flight
    child,         \* the spawned process: "none", "running", "exited", "reaped"
    quits,         \* whether this engine exits once told to quit / its stdin closes
    calls,         \* number of analyze calls started on the session
    args,          \* arguments of the analyze call in flight: fen, depth, multipv
    depth,         \* analyze_with_engine_io: let depth = normalized_depth(depth)
    multipv,       \* analyze_with_engine_io: let multipv = normalized_multipv(multipv)
    i,             \* lines read so far by the read loop in progress
    line,          \* the line buffer: the last line read (trimmed, tokenized)
    best_by_rank,  \* collect_analysis_result: BTreeMap<u32, ParsedInfoLine>
    result,        \* what the last finished call returned
    wire,          \* history: commands written and tokens matched by the current call
    handshake,     \* history: commands written and tokens matched by start
    depths_read,   \* history: per rank, the depths of the records read by this call
    input,         \* the arguments a function is applied to on its own (SpecParse, ..)
    output,        \* <<>>, and <<v>> once the function has returned v
    searching,     \* the engine: a search started by an earlier call has not
                   \* reported its bestmove (followed in SpecReuse only)
    stale_used,    \* history: the current call stored a record or ended on a
                   \* bestmove line that such a search wrote
    games,         \* the rows of the games table, in rowid order (SpecImport)
    reads,         \* history: the read_line calls of the call in flight (SpecLive)
    last_read      \* history: what the last read_line of the call returned (SpecLive)

vars == <<pc, child, quits, calls, args, depth, multipv, i, line,
          best_by_rank, result, wire, handshake, depths_read, input, output,
          searching, stale_used, games, reads,
          last_read>>

\* the variables of the specifications that apply one function on its own
fn_vars == <<input, output>>

\* what is followed of the engine's searches
eng_vars == <<searching, stale_used>>

\* the database
db_vars == <<games>>

\* the count of reads and the outcome of the last one
cost_vars == <<reads, last_read>>

----------------------------------------------------------------------------
(* Bounds of the model.                                                    *)

\* stands for the 20_000 passed as max_lines to wait_for_uci_token
TokenLineBound == 2
\* stands for the 50_000 iterations of the read loop of collect_analysis_result
AnalysisLineBound == 4
\* analyze calls made on one session
MaxCalls == 2

----------------------------------------------------------------------------
(* Option, numerals.                                                       *)

None == {}
Some(v) == {v}
UnwrapOr(opt, default) == IF opt = {} THEN default ELSE CHOOSE v \in opt : TRUE

\* str::parse::<u32>() on the numerals the model's lines use; Err(_) is None
ParseU32(token) ==
    CASE token = "0" -> Some(0)
      [] token = "1" -> Some(1)
      [] token = "2" -> Some(2)
      [] token = "5" -> Some(5)
      [] token = "10" -> Some(10)
      [] token = "11" -> Some(11)
      [] token = "16" -> Some(16)
      [] token = "18" -> Some(18)
      [] token = "21" -> Some(21)
      [] token = "34" -> Some(34)
      [] OTHER -> None

\* str::parse::<i32>(): as ParseU32, and a leading minus sign
ParseI32(token) ==
    CASE token = "-3" -> Some(-3)
      [] OTHER -> ParseU32(token)

\* format!("{n}") of a u32
FormatU32(n) ==
    CASE n = 0 -> "0"
      [] n = 1 -> "1"
      [] n = 2 -> "2"
      [] n = 5 -> "5"
      [] n = 10 -> "10"
      [] n = 11 -> "11"
      [] n = 16 -> "16"
      [] n = 18 -> "18"
      [] n = 21 -> "21"
      [] OTHER -> "34"

----------------------------------------------------------------------------
(* parse_info_line                                                         *)

NoInfo ==
    [depth |-> None, score_cp |-> None, score_mate |-> None, pv |-> <<>>, multipv |-> 1]

\* faulty variants of the while loop, selected by `fault`:
\*   "skip_two"     an unrecognized token is skipped together with the next one
\*   "mate_as_cp"   the value of "score mate" is stored as the centipawn score
\*   "pv_continues" the tokens after "pv" are stored and then scanned as keywords
\*   "invalid_left" a keyword whose argument is not a number is skipped alone
\*                  and changes nothing
RECURSIVE ParseTokensFaulty(_, _, _, _)
ParseTokensFaulty(tokens, index, acc, fault) ==
    IF index > Len(tokens) THEN acc
    ELSE LET has1 == index + 1 <= Len(tokens)
             has2 == index + 2 <= Len(tokens)
         IN  CASE /\ fault = "invalid_left"
                  /\ \/ /\ tokens[index] \in {"depth", "multipv"}
                        /\ has1 /\ ParseU32(tokens[index + 1]) = None
                     \/ /\ tokens[index] = "score"
                        /\ has2 /\ tokens[index + 1] \in {"cp", "mate"}
                        /\ ParseI32(tokens[index + 2]) = None ->
                    ParseTokensFaulty(tokens, index + 1, acc, fault)
               [] tokens[index] = "depth" ->
                    ParseTokensFaulty(tokens, index + 2,
                        IF has1 /\ ParseU32(tokens[index + 1]) # None
                        THEN [acc EXCEPT !.depth = ParseU32(tokens[index + 1])]
                        ELSE acc, fault)
               [] tokens[index] = "multipv" ->
                    ParseTokensFaulty(tokens, index + 2,
                        IF has1 /\ ParseU32(tokens[index + 1]) # None
                        THEN [acc EXCEPT !.multipv = UnwrapOr(ParseU32(tokens[index + 1]), 0)]
                        ELSE acc, fault)
               [] tokens[index] = "score" ->
                    ParseTokensFaulty(tokens, index + 3,
                        IF has2 /\ tokens[index + 1] = "cp"
                        THEN [acc EXCEPT !.score_cp = ParseI32(tokens[index + 2])]
                        ELSE IF has2 /\ tokens[index + 1] = "mate"
                        THEN IF fault = "mate_as_cp"
                             THEN [acc EXCEPT !.score_cp = ParseI32(tokens[index + 2])]
                             ELSE [acc EXCEPT !.score_mate = ParseI32(tokens[index + 2])]
                        ELSE acc, fault)
               [] tokens[index] = "pv" ->
                    LET found == IF has1
                                 THEN [acc EXCEPT !.pv = SubSeq(tokens, index + 1, Len(tokens))]
                                 ELSE acc
                    IN  IF fault = "pv_continues"
                        THEN LET rest == ParseTokensFaulty(tokens, index + 1, found, "")
                             IN  [rest EXCEPT !.pv = found.pv]
                        ELSE found
               [] OTHER ->
                    ParseTokensFaulty(tokens,
                        IF fault = "skip_two" THEN index + 2 ELSE index + 1, acc, fault)

ParseTokens_skip_two(tokens, index, acc) ==
    ParseTokensFaulty(tokens, index, acc, "skip_two")

ParseTokens_mate_as_cp(tokens, index, acc) ==
    ParseTokensFaulty(tokens, index, acc, "mate_as_cp")

ParseTokens_pv_continues(tokens, index, acc) ==
    ParseTokensFaulty(tokens, index, acc, "pv_continues")

ParseTokens_invalid_left(tokens, index, acc) ==
    ParseTokensFaulty(tokens, index, acc, "invalid_left")

\* the while loop of parse_info_line from token `index` (1-based) on
RECURSIVE ParseTokens(_, _, _)
ParseTokens(tokens, index, acc) ==
    IF index > Len(tokens) THEN acc
    ELSE LET has1 == index + 1 <= Len(tokens)
             has2 == index + 2 <= Len(tokens)
         IN  CASE tokens[index] = "depth" ->
                    ParseTokens(tokens, index + 2,
                        IF has1 /\ ParseU32(tokens[index + 1]) # None
                        THEN [acc EXCEPT !.depth = ParseU32(tokens[index + 1])]
                        ELSE acc)
               [] tokens[index] = "multipv" ->
                    ParseTokens(tokens, index + 2,
                        IF has1 /\ ParseU32(tokens[index + 1]) # None
                        THEN [acc EXCEPT !.multipv = UnwrapOr(ParseU32(tokens[index + 1]), 0)]
                        ELSE acc)
               [] tokens[index] = "score" ->
                    ParseTokens(tokens, index + 3,
                        IF has2 /\ tokens[index + 1] = "cp"
                        THEN [acc EXCEPT !.score_cp = ParseI32(tokens[index + 2])]
                        ELSE IF has2 /\ tokens[index + 1] = "mate"
                        THEN [acc EXCEPT !.score_mate = ParseI32(tokens[index + 2])]
                        ELSE acc)
               [] tokens[index] = "pv" ->
                    IF has1
                    THEN [acc EXCEPT !.pv = SubSeq(tokens, index + 1, Len(tokens))]
                    ELSE acc
               [] OTHER -> ParseTokens(tokens, index + 1, acc)

\* line.starts_with("info "): the first token is "info" and another token follows
StartsWithInfo(tokens) == Len(tokens) >= 2 /\ tokens[1] = "info"

\* faulty variant: the marker at the start of the line is not looked at
parse_info_line_no_marker(tokens) ==
    LET p == ParseTokens(tokens, 1, NoInfo)
    IN  IF p.depth = None /\ p.score_cp = None /\ p.score_mate = None /\ p.pv = <<>>
        THEN None
        ELSE Some(p)

\* faulty variant: a rank other than the default counts as content
parse_info_line_rank_counts(tokens) ==
    IF ~StartsWithInfo(tokens) THEN None
    ELSE LET p == ParseTokens(tokens, 1, NoInfo)
         IN  IF p.depth = None /\ p.score_cp = None /\ p.score_mate = None /\ p.pv = <<>>
                /\ p.multipv = 1
             THEN None
             ELSE Some(p)

\* Option<ParsedInfoLine>
parse_info_line(tokens) ==
    IF ~StartsWithInfo(tokens) THEN None
    ELSE LET p == ParseTokens(tokens, 1, NoInfo)
         IN  IF p.depth = None /\ p.score_cp = None /\ p.score_mate = None /\ p.pv = <<>>
             THEN None
             ELSE Some(p)

----------------------------------------------------------------------------
(* better_info, normalized_depth, normalized_multipv                        *)

\* faulty variant: the depths are not compared, the latest record wins
better_info_latest_wins(candidate, current) == TRUE

\* faulty variant: the tie-break on the move sequence is missing
better_info_depth_only(candidate, current) ==
    UnwrapOr(candidate.depth, 0) > UnwrapOr(current.depth, 0)

\* faulty variant: a record with moves is not replaced by a deeper one without
better_info_keeps_moves(candidate, current) ==
    LET candidate_depth == UnwrapOr(candidate.depth, 0)
        current_depth == UnwrapOr(current.depth, 0)
    IN  \/ candidate_depth > current_depth /\ ~(candidate.pv = <<>> /\ current.pv # <<>>)
        \/ candidate_depth = current_depth /\ candidate.pv # <<>> /\ current.pv = <<>>

\* faulty variant: at equal depth the later record replaces the stored one
better_info_tie_replaces(candidate, current) ==
    UnwrapOr(candidate.depth, 0) >= UnwrapOr(current.depth, 0)

better_info(candidate, current) ==
    LET candidate_depth == UnwrapOr(candidate.depth, 0)
        current_depth == UnwrapOr(current.depth, 0)
    IN  \/ candidate_depth > current_depth
        \/ (candidate_depth = current_depth /\ candidate.pv # <<>> /\ current.pv = <<>>)

DefaultDepth == 18

\* faulty variant: the depth is passed on as requested
normalized_depth_raw(d) == d

normalized_depth(d) == IF d = 0 THEN DefaultDepth ELSE d

MinMultipv == 1
MaxMultipv == 10

\* faulty variant: only the upper end is clamped
normalized_multipv_no_floor(m) == IF m > MaxMultipv THEN MaxMultipv ELSE m

\* u32::clamp(1, 10)
normalized_multipv(m) ==
    IF m < MinMultipv THEN MinMultipv ELSE IF m > MaxMultipv THEN MaxMultipv ELSE m

----------------------------------------------------------------------------
(* pv_uci_to_san.  The rules collaborator (shakmaty) is modelled on the    *)
(* positions the model's lines can reach: a position is the sequence of    *)
(* moves played from the parsed starting position.                         *)

\* Fen::from_str(fen) and into_position(Standard) both succeed
FenParses(fen) == fen \in {"startfen", "e4fen"}

\* the position of a fen that parses, as the moves played from the initial
\* position: "startfen" is the initial position, "e4fen" the one after e2e4
PositionOf(fen) == IF fen = "e4fen" THEN <<"e2e4">> ELSE <<>>

\* UciMove::from_ascii succeeds
UciParses(uci) == uci \in {"e2e4", "e7e5", "g1f3", "h7h8q"}

\* parsed_uci.to_move(&position) and San::from_move: the SAN, None when illegal
SanOfMove(position, uci) ==
    CASE position = <<>> /\ uci = "e2e4" -> Some("e4")
      [] position = <<"e2e4">> /\ uci = "e7e5" -> Some("e5")
      [] position = <<"e2e4", "e7e5">> /\ uci = "g1f3" -> Some("Nf3")
      [] OTHER -> None

\* faulty variant: a token that fails is left out and the loop goes on
RECURSIVE SanTokens_skips_failures(_, _, _)
SanTokens_skips_failures(position, pv, k) ==
    IF k > Len(pv) THEN <<>>
    ELSE IF ~UciParses(pv[k]) \/ SanOfMove(position, pv[k]) = None
    THEN SanTokens_skips_failures(position, pv, k + 1)
    ELSE <<UnwrapOr(SanOfMove(position, pv[k]), "")>>
             \o SanTokens_skips_failures(Append(position, pv[k]), pv, k + 1)

\* the for loop of pv_uci_to_san from token k on
RECURSIVE SanTokens(_, _, _)
SanTokens(position, pv, k) ==
    IF k > Len(pv) THEN <<>>
    ELSE IF ~UciParses(pv[k]) THEN <<>>
    ELSE LET san == SanOfMove(position, pv[k])
         IN  IF san = None THEN <<>>
             ELSE <<UnwrapOr(san, "")>> \o SanTokens(Append(position, pv[k]), pv, k + 1)

\* faulty variant: with an unparseable fen the tokens are returned untranslated
pv_uci_to_san_raw_on_bad_fen(fen, pv) ==
    IF ~FenParses(fen) THEN pv ELSE SanTokens(PositionOf(fen), pv, 1)

pv_uci_to_san(fen, pv) ==
    IF ~FenParses(fen) THEN <<>> ELSE SanTokens(PositionOf(fen), pv, 1)

----------------------------------------------------------------------------
(* Results and errors.                                                     *)

Ok(v) == [ok |-> TRUE, kind |-> "Ok", msg |-> "", value |-> v]
Err(kind, msg) == [ok |-> FALSE, kind |-> kind, msg |-> msg, value |-> <<>>]
\* no call has returned yet
Pending == [ok |-> FALSE, kind |-> "Pending", msg |-> "", value |-> <<>>]

IoError == Err("Io", "io")
\* faulty variant: a failed spawn is reported as a protocol error
SpawnError_as_protocol == Err("Protocol", "failed to start engine")
SpawnError == Err("Spawn", "failed to start engine")
ClosedWaiting == Err("Protocol", "engine closed output while waiting for token")
NotReceived == Err("Protocol", "did not receive token from engine")
ClosedBeforeBestmove == Err("Protocol", "engine closed output before sending bestmove")
NoAnalysisInfo == Err("Protocol", "engine returned no analysis info for this position")

----------------------------------------------------------------------------
(* The engine's output and the caller's inputs.                            *)

InfoLine(rank, d, score, moves) ==
    <<"info">>
        \o (IF d = "" THEN <<>> ELSE <<"depth", d>>)
        \o (IF rank = "" THEN <<>> ELSE <<"multipv", rank>>)
        \o score
        \o (IF moves = <<>> THEN <<>> ELSE <<"pv">> \o moves)

InfoLines ==
    {InfoLine(rank, d, <<>>, moves) :
        rank \in {"", "2"}, d \in {"", "16", "21"}, moves \in {<<>>, <<"e2e4">>}}
    \cup {InfoLine("", "16", <<"score", "cp", "34">>, <<>>),
          InfoLine("", "21", <<"score", "mate", "-3">>, <<"h7h8q">>),
          InfoLine("0", "21", <<>>, <<"e2e4">>),
          InfoLine("11", "21", <<>>, <<"e2e4">>)}

BestmoveLines == {<<"bestmove", "e2e4">>, <<"bestmove", "(none)">>, <<"bestmove">>}

EngineLines ==
    InfoLines \cup BestmoveLines \cup {<<"uciok">>, <<"readyok">>, <<"id", "name", "engine">>}

\* what one blocking read_line returns: a line, Ok(0) or Err
ReadOutcomes ==
    {[kind |-> "line", text |-> l] : l \in EngineLines}
    \cup {[kind |-> "eof", text |-> <<>>], [kind |-> "err", text |-> <<>>]}

\* the (fen, depth, multipv) arguments the caller passes to analyze_multipv
Request(fen, d, m) == [fen |-> fen, depth |-> d, multipv |-> m]

Requests ==
    {Request("startfen", 0, 0), Request("startfen", 5, 2),
     Request("badfen", 5, 2), Request("startfen", 0, 11)}

Written(cmd) == [io |-> "write", text |-> cmd]
WriteFailed(cmd) == [io |-> "write failed", text |-> cmd]
Matched(text) == [io |-> "read", text |-> text]

----------------------------------------------------------------------------
(* wait_for_uci_token: the outcome of the iteration that reads r after n   *)
(* earlier lines: "ok", "more", or the error returned.                     *)

\* faulty variant: the line read is not compared with the token
wait_for_uci_token_any_line(r, token, n, max_lines) ==
    IF r.kind = "err" THEN "io"
    ELSE IF r.kind = "eof" THEN "closed"
    ELSE "ok"

\* faulty variant: a line that contains the token matches
wait_for_uci_token_contains(r, token, n, max_lines) ==
    IF r.kind = "err" THEN "io"
    ELSE IF r.kind = "eof" THEN "closed"
    ELSE IF \E k \in 1..Len(r.text) : r.text[k] = token THEN "ok"
    ELSE IF n + 1 >= max_lines THEN "missing"
    ELSE "more"

\* faulty variant: the lines read are not counted, the wait goes on until
\* the token, the end of the output or an error
wait_for_uci_token_no_bound(r, token, n, max_lines) ==
    IF r.kind = "err" THEN "io"
    ELSE IF r.kind = "eof" THEN "closed"
    ELSE IF r.text = <<token>> THEN "ok"
    ELSE "more"

wait_for_uci_token(r, token, n, max_lines) ==
    IF r.kind = "err" THEN "io"
    ELSE IF r.kind = "eof" THEN "closed"
    ELSE IF r.text = <<token>> THEN "ok"
    ELSE IF n + 1 >= max_lines THEN "missing"
    ELSE "more"

\* faulty variant: a failed read is reported like the end of the output
WaitError_io_as_closed(outcome) ==
    CASE outcome = "io" -> ClosedWaiting
      [] outcome = "closed" -> ClosedWaiting
      [] OTHER -> NotReceived

WaitError(outcome) ==
    CASE outcome = "io" -> IoError
      [] outcome = "closed" -> ClosedWaiting
      [] OTHER -> NotReceived

----------------------------------------------------------------------------
(* collect_analysis_result                                                 *)

\* trimmed.starts_with("bestmove")
StartsWithBestmove(tokens) == Len(tokens) >= 1 /\ tokens[1] = "bestmove"

\* faulty variant: ranks above the requested width are not skipped
RankIgnored_zero_only(info, requested_multipv) == info.multipv = 0

\* faulty variant: rank 0 is not skipped
RankIgnored_above_only(info, requested_multipv) == info.multipv > requested_multipv

\* the rank filter of the read loop: the record is skipped
RankIgnored(info, requested_multipv) ==
    info.multipv = 0 \/ info.multipv > requested_multipv

\* the read loop's update of best_by_rank by one parsed line (an Option)
UpdateBest(map, parsed, requested_multipv) ==
    IF parsed = None THEN map
    ELSE LET info == UnwrapOr(parsed, NoInfo)
         IN  IF RankIgnored(info, requested_multipv) THEN map
             ELSE LET should_update ==
                          IF info.multipv \in DOMAIN map
                          THEN better_info(info, map[info.multipv])
                          ELSE TRUE
                  IN  IF should_update
                      THEN (info.multipv :> info) @@ map
                      ELSE map

\* history: the depth (absent counting as 0) of a record of a rank in
\* [1, width] is added to the depths read for its rank
NoteDepth(read, parsed, width) ==
    IF parsed = None THEN read
    ELSE LET info == UnwrapOr(parsed, NoInfo)
             rank == info.multipv
         IN  IF rank < 1 \/ rank > width THEN read
             ELSE (rank :> ((IF rank \in DOMAIN read THEN read[rank] ELSE {})
                              \cup {UnwrapOr(info.depth, 0)})) @@ read

\* the token after "bestmove" unless missing or "(none)"
BestmoveToken(tokens) ==
    IF Len(tokens) >= 2 /\ tokens[2] # "(none)" THEN Some(tokens[2]) ELSE None

\* the keys of the BTreeMap in iteration order, then sort_by_key (stable)
RECURSIVE SortedRanks(_)
SortedRanks(S) ==
    IF S = {} THEN <<>>
    ELSE LET least == CHOOSE x \in S : \A y \in S : x <= y
         IN  <<least>> \o SortedRanks(S \ {least})

EngineLine(rank, info, fen, requested_depth) ==
    [multipv_rank |-> rank,
     depth |-> UnwrapOr(info.depth, requested_depth),
     score_cp |-> info.score_cp,
     score_mate |-> info.score_mate,
     pv |-> info.pv,
     san_pv |-> pv_uci_to_san(fen, info.pv)]

\* faulty variant: without any record the announced best move is returned as the result
Finalize_bestmove_only(map, bestmove, fen, requested_depth) ==
    IF DOMAIN map = {} /\ bestmove = None THEN NoAnalysisInfo
    ELSE Ok([depth |-> requested_depth,
             score_cp |-> None,
             score_mate |-> None,
             bestmove |-> bestmove,
             pv |-> <<>>,
             lines |-> <<>>])

\* faulty variant: the line of the highest rank is taken
PrimaryLine_last(lines) == lines[Len(lines)]

\* lines.iter().find(|line| line.multipv_rank == 1).or_else(|| lines.first())
PrimaryLine(lines) ==
    IF \E k \in 1..Len(lines) : lines[k].multipv_rank = 1
    THEN lines[CHOOSE k \in 1..Len(lines) : lines[k].multipv_rank = 1]
    ELSE lines[1]

\* faulty variant: the token of the bestmove line comes first
ReportedBestmove_token_first(primary, bestmove) ==
    IF bestmove # None THEN bestmove
    ELSE IF primary.san_pv # <<>> THEN Some(primary.san_pv[1])
    ELSE IF primary.pv # <<>> THEN Some(primary.pv[1])
    ELSE None

\* primary.san_pv.first().cloned().or(bestmove).or_else(|| primary.pv.first().cloned())
ReportedBestmove(primary, bestmove) ==
    IF primary.san_pv # <<>> THEN Some(primary.san_pv[1])
    ELSE IF bestmove # None THEN bestmove
    ELSE IF primary.pv # <<>> THEN Some(primary.pv[1])
    ELSE None

\* the code after the read loop
Finalize(map, bestmove, fen, requested_depth) ==
    IF DOMAIN map = {} THEN NoAnalysisInfo
    ELSE LET ranks == SortedRanks(DOMAIN map)
             lines == [k \in 1..Len(ranks) |->
                          EngineLine(ranks[k], map[ranks[k]], fen, requested_depth)]
             primary == PrimaryLine(lines)
         IN  Ok([depth |-> primary.depth,
                 score_cp |-> primary.score_cp,
                 score_mate |-> primary.score_mate,
                 bestmove |-> ReportedBestmove(primary, bestmove),
                 pv |-> primary.pv,
                 lines |-> lines])

----------------------------------------------------------------------------
(* Init: nothing has been spawned.                                         *)

NoArgs == Request("", 0, 0)

Init ==
    /\ pc = "init"
    /\ child = "none"
    /\ quits = FALSE
    /\ calls = 0
    /\ args = NoArgs
    /\ depth = 0
    /\ multipv = 0
    /\ i = 0
    /\ line = <<>>
    /\ best_by_rank = <<>>
    /\ result = Pending
    /\ wire = <<>>
    /\ handshake = <<>>
    /\ depths_read = <<>>
    /\ input = <<>>
    /\ output = <<>>
    /\ searching = FALSE
    /\ stale_used = FALSE
    /\ reads = 0
    /\ last_read = "none"
    /\ games = <<>>

----------------------------------------------------------------------------
(* EngineSession::start                                                    *)

\* an error return of start: child, stdin and reader are locals and are
\* dropped; std::process::Child has no Drop, so nothing is written or waited for
StartReturnsErr(err) ==
    /\ pc' = "start_failed"
    /\ result' = err

\* spawn_engine(engine_path)?; with Stdio::piped() both child.stdin.take()
\* and child.stdout.take() are Some, so the two ok_or_else errors cannot occur
StartSpawn ==
    /\ pc = "init"
    /\ \/ /\ pc' = "start_failed"
          /\ result' = SpawnError
          /\ UNCHANGED <<child, quits>>
       \/ /\ pc' = "start_send_uci"
          /\ child' = "running"
          /\ quits' \in BOOLEAN
          /\ UNCHANGED result
    /\ UNCHANGED <<calls, args, depth, multipv, i, line, best_by_rank, wire, handshake,
                   depths_read>>
    /\ UNCHANGED fn_vars
    /\ UNCHANGED db_vars
    /\ UNCHANGED eng_vars
    /\ UNCHANGED cost_vars

\* send_uci_command(&mut stdin, "uci")?
StartSendUci ==
    /\ pc = "start_send_uci"
    /\ \/ /\ wire' = Append(wire, Written(<<"uci">>))
          /\ pc' = "start_wait_uciok"
          /\ i' = 0
          /\ UNCHANGED result
       \/ /\ wire' = Append(wire, WriteFailed(<<"uci">>))
          /\ StartReturnsErr(IoError)
          /\ UNCHANGED i
    /\ UNCHANGED <<child, quits, calls, args, depth, multipv, line, best_by_rank,
                   handshake, depths_read>>
    /\ UNCHANGED fn_vars
    /\ UNCHANGED db_vars
    /\ UNCHANGED eng_vars
    /\ UNCHANGED cost_vars

\* the effect on the call of one iteration of
\* wait_for_uci_token(&mut reader, "uciok", 20_000)? that reads r
StartWaitUciokRead(r) ==
    LET outcome == wait_for_uci_token(r, "uciok", i, TokenLineBound)
    IN  /\ line' = r.text
        /\ CASE outcome = "ok" ->
                  /\ pc' = "start_send_isready"
                  /\ wire' = Append(wire, Matched(r.text))
                  /\ UNCHANGED <<i, result>>
             [] outcome = "more" ->
                  /\ i' = i + 1
                  /\ UNCHANGED <<pc, wire, result>>
             [] OTHER ->
                  /\ StartReturnsErr(WaitError(outcome))
                  /\ UNCHANGED <<i, wire>>
        /\ UNCHANGED <<child, quits, calls, args, depth, multipv, best_by_rank, handshake,
                       depths_read>>
        /\ UNCHANGED fn_vars
        /\ UNCHANGED db_vars

\* one iteration of wait_for_uci_token(&mut reader, "uciok", 20_000)?
StartWaitUciok ==
    /\ pc = "start_wait_uciok"
    /\ \E r \in ReadOutcomes : StartWaitUciokRead(r)
    /\ UNCHANGED eng_vars
    /\ UNCHANGED cost_vars

\* send_uci_command(&mut stdin, "isready")?
StartSendIsready ==
    /\ pc = "start_send_isready"
    /\ \/ /\ wire' = Append(wire, Written(<<"isready">>))
          /\ pc' = "start_wait_readyok"
          /\ i' = 0
          /\ UNCHANGED result
       \/ /\ wire' = Append(wire, WriteFailed(<<"isready">>))
          /\ StartReturnsErr(IoError)
          /\ UNCHANGED i
    /\ UNCHANGED <<child, quits, calls, args, depth, multipv, line, best_by_rank,
                   handshake, depths_read>>
    /\ UNCHANGED fn_vars
    /\ UNCHANGED db_vars
    /\ UNCHANGED eng_vars
    /\ UNCHANGED cost_vars

\* what start does once wait_for_uci_token(.., "readyok", ..) returned Ok on
\* reading `text`: Ok(Self { child, stdin, reader })
StartAfterReadyok(text) ==
    /\ pc' = "idle"
    /\ wire' = Append(wire, Matched(text))
    /\ handshake' = Append(wire, Matched(text))
    /\ result' = Ok(<<>>)

\* the effect on the call of one iteration of
\* wait_for_uci_token(&mut reader, "readyok", 20_000)? that reads r, then Ok(Self)
StartWaitReadyokRead(r) ==
    LET outcome == wait_for_uci_token(r, "readyok", i, TokenLineBound)
    IN  /\ line' = r.text
        /\ CASE outcome = "ok" ->
                  /\ StartAfterReadyok(r.text)
                  /\ UNCHANGED i
             [] outcome = "more" ->
                  /\ i' = i + 1
                  /\ UNCHANGED <<pc, wire, handshake, result>>
             [] OTHER ->
                  /\ StartReturnsErr(WaitError(outcome))
                  /\ UNCHANGED <<i, wire, handshake>>
        /\ UNCHANGED <<child, quits, calls, args, depth, multipv, best_by_rank,
                       depths_read>>
        /\ UNCHANGED fn_vars
        /\ UNCHANGED db_vars

\* one iteration of wait_for_uci_token(&mut reader, "readyok", 20_000)?, then Ok(Self)
StartWaitReadyok ==
    /\ pc = "start_wait_readyok"
    /\ \E r \in ReadOutcomes : StartWaitReadyokRead(r)
    /\ UNCHANGED eng_vars
    /\ UNCHANGED cost_vars

----------------------------------------------------------------------------
(* analyze / analyze_multipv: analyze_with_engine_io                       *)

\* analyze_with_engine_io reaches a return with value res
AnalyzeReturns(res) ==
    /\ pc' = "an_return"
    /\ result' = res

SetoptionCommand(m) == <<"setoption", "name", "MultiPV", "value", FormatU32(m)>>
PositionCommand(fen) == <<"position", "fen", fen>>
GoCommand(d) == <<"go", "depth", FormatU32(d)>>

\* the call with the arguments `request`, the two normalizations and
\* send_uci_command(.., "setoption ..")?
AnalyzeCall(request) ==
    /\ pc = "idle"
    /\ calls < MaxCalls
    /\ args' = request
    /\ depth' = normalized_depth(request.depth)
    /\ multipv' = normalized_multipv(request.multipv)
    /\ \/ /\ wire' = <<Written(SetoptionCommand(multipv'))>>
          /\ pc' = "an_send_isready"
          /\ result' = Pending
       \/ /\ wire' = <<WriteFailed(SetoptionCommand(multipv'))>>
          /\ AnalyzeReturns(IoError)
    /\ calls' = calls + 1
    /\ UNCHANGED <<child, quits, i, line, best_by_rank, handshake, depths_read>>
    /\ UNCHANGED fn_vars
    /\ UNCHANGED db_vars

AnalyzeSendSetoption ==
    /\ \E request \in Requests : AnalyzeCall(request)
    /\ UNCHANGED eng_vars
    /\ UNCHANGED cost_vars

\* faulty variant: position is sent right after isready, readyok is not awaited
AnalyzeSendIsready_no_wait ==
    /\ pc = "an_send_isready"
    /\ wire' = Append(wire, Written(<<"isready">>))
    /\ pc' = "an_send_position"
    /\ UNCHANGED <<child, quits, calls, args, depth, multipv, i, line, best_by_rank,
                   result, handshake, depths_read>>
    /\ UNCHANGED fn_vars
    /\ UNCHANGED db_vars
    /\ UNCHANGED eng_vars
    /\ UNCHANGED cost_vars

\* send_uci_command(stdin, "isready")?
AnalyzeSendIsready ==
    /\ pc = "an_send_isready"
    /\ \/ /\ wire' = Append(wire, Written(<<"isready">>))
          /\ pc' = "an_wait_readyok"
          /\ i' = 0
          /\ UNCHANGED result
       \/ /\ wire' = Append(wire, WriteFailed(<<"isready">>))
          /\ AnalyzeReturns(IoError)
          /\ UNCHANGED i
    /\ UNCHANGED <<child, quits, calls, args, depth, multipv, line, best_by_rank,
                   handshake, depths_read>>
    /\ UNCHANGED fn_vars
    /\ UNCHANGED db_vars
    /\ UNCHANGED eng_vars
    /\ UNCHANGED cost_vars

\* the effect on the call of one iteration of
\* wait_for_uci_token(reader, "readyok", 20_000)? that reads r
AnalyzeWaitRead(r) ==
    LET outcome == wait_for_uci_token(r, "readyok", i, TokenLineBound)
    IN  /\ line' = r.text
        /\ CASE outcome = "ok" ->
                  /\ pc' = "an_send_position"
                  /\ wire' = Append(wire, Matched(r.text))
                  /\ UNCHANGED <<i, result>>
             [] outcome = "more" ->
                  /\ i' = i + 1
                  /\ UNCHANGED <<pc, wire, result>>
             [] OTHER ->
                  /\ AnalyzeReturns(WaitError(outcome))
                  /\ UNCHANGED <<i, wire>>
        /\ UNCHANGED <<child, quits, calls, args, depth, multipv, best_by_rank, handshake,
                       depths_read>>
        /\ UNCHANGED fn_vars
        /\ UNCHANGED db_vars

\* one iteration of wait_for_uci_token(reader, "readyok", 20_000)?
AnalyzeWaitReadyok ==
    /\ pc = "an_wait_readyok"
    /\ \E r \in ReadOutcomes : AnalyzeWaitRead(r)
    /\ UNCHANGED eng_vars
    /\ UNCHANGED cost_vars

\* send_uci_command(stdin, "position fen {fen}")?
AnalyzeSendPosition ==
    /\ pc = "an_send_position"
    /\ \/ /\ wire' = Append(wire, Written(PositionCommand(args.fen)))
          /\ pc' = "an_send_go"
          /\ UNCHANGED result
       \/ /\ wire' = Append(wire, WriteFailed(PositionCommand(args.fen)))
          /\ AnalyzeReturns(IoError)
    /\ UNCHANGED <<child, quits, calls, args, depth, multipv, i, line, best_by_rank,
                   handshake, depths_read>>
    /\ UNCHANGED fn_vars
    /\ UNCHANGED db_vars
    /\ UNCHANGED eng_vars
    /\ UNCHANGED cost_vars

\* faulty variant: the map of the read loop starts with a record of an
\* earlier call instead of empty
AnalyzeSendGo_stale_map ==
    /\ pc = "an_send_go"
    /\ \/ /\ wire' = Append(wire, Written(GoCommand(depth)))
          /\ pc' = "an_collect"
          /\ i' = 0
          /\ line' = <<>>
          /\ best_by_rank' = IF calls > 1
                              THEN (1 :> [NoInfo EXCEPT !.depth = Some(21), !.pv = <<"e2e4">>])
                              ELSE <<>>
          /\ depths_read' = <<>>
          /\ UNCHANGED result
       \/ /\ wire' = Append(wire, WriteFailed(GoCommand(depth)))
          /\ AnalyzeReturns(IoError)
          /\ UNCHANGED <<i, line, best_by_rank, depths_read>>
    /\ UNCHANGED <<child, quits, calls, args, depth, multipv, handshake>>
    /\ UNCHANGED fn_vars
    /\ UNCHANGED db_vars
    /\ UNCHANGED eng_vars
    /\ UNCHANGED cost_vars

\* send_uci_command(stdin, "go depth {depth}")?, then the entry of
\* collect_analysis_result: best_by_rank and line are created empty
AnalyzeSendGo ==
    /\ pc = "an_send_go"
    /\ \/ /\ wire' = Append(wire, Written(GoCommand(depth)))
          /\ pc' = "an_collect"
          /\ i' = 0
          /\ line' = <<>>
          /\ best_by_rank' = <<>>
          /\ depths_read' = <<>>
          /\ UNCHANGED result
       \/ /\ wire' = Append(wire, WriteFailed(GoCommand(depth)))
          /\ AnalyzeReturns(IoError)
          /\ UNCHANGED <<i, line, best_by_rank, depths_read>>
    /\ UNCHANGED <<child, quits, calls, args, depth, multipv, handshake>>
    /\ UNCHANGED fn_vars
    /\ UNCHANGED db_vars
    /\ UNCHANGED eng_vars
    /\ UNCHANGED cost_vars

\* faulty variant: a line that is neither a record nor a bestmove line is a
\* protocol error
CollectStep_strict(map, r, n, fen, requested_depth, requested_multipv) ==
    CASE r.kind = "err" -> [map |-> map, ret |-> <<IoError>>]
      [] r.kind = "eof" -> [map |-> map, ret |-> <<ClosedBeforeBestmove>>]
      [] OTHER ->
           LET parsed == parse_info_line(r.text)
               updated == UpdateBest(map, parsed, requested_multipv)
               terminal == parsed = None /\ StartsWithBestmove(r.text)
               bestmove == IF terminal THEN BestmoveToken(r.text) ELSE None
           IN  [map |-> updated,
                ret |-> IF parsed = None /\ ~terminal
                        THEN <<Err("Protocol", "unexpected line")>>
                        ELSE IF terminal \/ n + 1 >= AnalysisLineBound
                        THEN <<Finalize(updated, bestmove, fen, requested_depth)>>
                        ELSE <<>>]

\* faulty variant: at the end of the output the records stored are returned
CollectStep_eof_finalizes(map, r, n, fen, requested_depth, requested_multipv) ==
    CASE r.kind = "err" -> [map |-> map, ret |-> <<IoError>>]
      [] r.kind = "eof" -> [map |-> map,
                            ret |-> <<IF DOMAIN map = {} THEN ClosedBeforeBestmove
                                      ELSE Finalize(map, None, fen, requested_depth)>>]
      [] OTHER ->
           LET parsed == parse_info_line(r.text)
               updated == UpdateBest(map, parsed, requested_multipv)
               terminal == parsed = None /\ StartsWithBestmove(r.text)
               bestmove == IF terminal THEN BestmoveToken(r.text) ELSE None
           IN  [map |-> updated,
                ret |-> IF terminal \/ n + 1 >= AnalysisLineBound
                        THEN <<Finalize(updated, bestmove, fen, requested_depth)>>
                        ELSE <<>>]

\* one iteration of the read loop of collect_analysis_result on the read
\* outcome r, after n earlier lines: the map after it and, in `ret`, the
\* value returned when the iteration ends the call (<<>> when it does not).
\* The iteration that ends the loop (a bestmove line, or the last of the
\* 50_000) also runs the code after the loop.
CollectStep(map, r, n, fen, requested_depth, requested_multipv) ==
    CASE r.kind = "err" -> [map |-> map, ret |-> <<IoError>>]
      [] r.kind = "eof" -> [map |-> map, ret |-> <<ClosedBeforeBestmove>>]
      [] OTHER ->
           LET parsed == parse_info_line(r.text)
               updated == UpdateBest(map, parsed, requested_multipv)
               terminal == parsed = None /\ StartsWithBestmove(r.text)
               bestmove == IF terminal THEN BestmoveToken(r.text) ELSE None
           IN  [map |-> updated,
                ret |-> IF terminal \/ n + 1 >= AnalysisLineBound
                        THEN <<Finalize(updated, bestmove, fen, requested_depth)>>
                        ELSE <<>>]

\* the effect of one iteration on the locals of the call
CollectRead(r) ==
    LET step == CollectStep(best_by_rank, r, i, args.fen, depth, multipv)
    IN  /\ line' = r.text
        /\ best_by_rank' = step.map
        /\ i' = IF r.kind = "line" THEN i + 1 ELSE i
        /\ depths_read' = IF r.kind = "line"
                          THEN NoteDepth(depths_read, parse_info_line(r.text), multipv)
                          ELSE depths_read
        /\ IF step.ret # <<>>
           THEN AnalyzeReturns(step.ret[1])
           ELSE UNCHANGED <<pc, result>>

\* one iteration of the read loop of collect_analysis_result
CollectReadLine ==
    /\ pc = "an_collect"
    /\ \E r \in ReadOutcomes : CollectRead(r)
    /\ UNCHANGED <<child, quits, calls, args, depth, multipv, wire, handshake>>
    /\ UNCHANGED fn_vars
    /\ UNCHANGED db_vars
    /\ UNCHANGED eng_vars
    /\ UNCHANGED cost_vars

\* the call returns to the caller, which keeps the session: the locals of
\* analyze_with_engine_io and collect_analysis_result go out of scope
AnalyzeReturnLocals ==
    /\ pc = "an_return"
    /\ pc' = "idle"
    /\ args' = NoArgs
    /\ depth' = 0
    /\ multipv' = 0
    /\ i' = 0
    /\ line' = <<>>
    /\ best_by_rank' = <<>>
    /\ depths_read' = <<>>
    /\ UNCHANGED <<child, quits, calls, result, wire, handshake>>
    /\ UNCHANGED fn_vars
    /\ UNCHANGED db_vars

AnalyzeReturn ==
    /\ AnalyzeReturnLocals
    /\ UNCHANGED eng_vars
    /\ UNCHANGED cost_vars

----------------------------------------------------------------------------
(* impl Drop for EngineSession, and the engine process                     *)

\* the caller drops the session: let _ = send_uci_command(&mut self.stdin, "quit")
DropSendQuit ==
    /\ pc = "idle"
    /\ \/ wire' = <<Written(<<"quit">>)>>
       \/ wire' = <<WriteFailed(<<"quit">>)>>
    /\ pc' = "drop_wait"
    /\ UNCHANGED <<child, quits, calls, args, depth, multipv, i, line, best_by_rank,
                   result, handshake, depths_read>>
    /\ UNCHANGED fn_vars
    /\ UNCHANGED db_vars
    /\ UNCHANGED eng_vars
    /\ UNCHANGED cost_vars

\* let _ = self.child.wait(): returns once the process has exited
DropWait ==
    /\ pc = "drop_wait"
    /\ child = "exited"
    /\ child' = "reaped"
    /\ pc' = "dropped"
    /\ UNCHANGED <<quits, calls, args, depth, multipv, i, line, best_by_rank, result,
                   wire, handshake, depths_read>>
    /\ UNCHANGED fn_vars
    /\ UNCHANGED db_vars
    /\ UNCHANGED eng_vars
    /\ UNCHANGED cost_vars

\* the engine process exits: after quit was attempted or its pipes were
\* closed, if it is an engine that does so (quits).  What an earlier exit
\* shows to the session, end-of-stream on a read or a failing write, is
\* possible at every read and write anyway.
EngineExit ==
    /\ child = "running"
    /\ quits
    /\ pc \in {"drop_wait", "start_failed"}
    /\ child' = "exited"
    /\ UNCHANGED <<pc, quits, calls, args, depth, multipv, i, line, best_by_rank,
                   result, wire, handshake, depths_read>>
    /\ UNCHANGED fn_vars
    /\ UNCHANGED db_vars
    /\ UNCHANGED eng_vars
    /\ UNCHANGED cost_vars

----------------------------------------------------------------------------

Next ==
    \/ StartSpawn
    \/ StartSendUci
    \/ StartWaitUciok
    \/ StartSendIsready
    \/ StartWaitReadyok
    \/ AnalyzeSendSetoption
    \/ AnalyzeSendIsready
    \/ AnalyzeWaitReadyok
    \/ AnalyzeSendPosition
    \/ AnalyzeSendGo
    \/ CollectReadLine
    \/ AnalyzeReturn
    \/ DropSendQuit
    \/ DropWait
    \/ EngineExit

Spec == Init /\ [][Next]_vars

----------------------------------------------------------------------------
(* A session that is used again, with the engine's searches followed.  The *)
(* code never writes "stop" and never reads up to the bestmove line of a   *)
(* search it has left, so a search can outlive the call that started it.   *)

\* the call in flight has written its go command
SearchStarted == \E k \in 1..Len(wire) : wire[k] = Written(GoCommand(depth))

\* one iteration of the readyok wait of analyze; a bestmove line read here
\* may be the one that ends the search left by an earlier call
ReuseWaitReadyok ==
    /\ pc = "an_wait_readyok"
    /\ \E r \in ReadOutcomes :
        /\ AnalyzeWaitRead(r)
        /\ IF searching /\ r.kind = "line" /\ StartsWithBestmove(r.text)
           THEN searching' \in BOOLEAN
           ELSE UNCHANGED searching
    /\ UNCHANGED stale_used
    /\ UNCHANGED cost_vars

\* one iteration of the read loop; while an earlier search is running, a
\* record or a bestmove line read may have been written by it
ReuseCollectReadLine ==
    /\ pc = "an_collect"
    /\ \E r \in ReadOutcomes :
        /\ CollectRead(r)
        /\ LET of_search == /\ r.kind = "line"
                            /\ parse_info_line(r.text) # None \/ StartsWithBestmove(r.text)
               taken == best_by_rank' # best_by_rank \/ StartsWithBestmove(r.text)
           IN  IF searching /\ of_search
               THEN \E earlier \in BOOLEAN :
                        stale_used' = (stale_used \/ (earlier /\ taken))
               ELSE UNCHANGED stale_used
    /\ UNCHANGED <<child, quits, calls, args, depth, multipv, wire, handshake>>
    /\ UNCHANGED fn_vars
    /\ UNCHANGED db_vars
    /\ UNCHANGED searching
    /\ UNCHANGED cost_vars

\* the call returns; a search it started goes on in the engine unless the
\* call ended on a bestmove line of its own or at the end of the output
ReuseAnalyzeReturn ==
    /\ AnalyzeReturnLocals
    /\ searching' = (\/ searching
                     \/ /\ SearchStarted
                        /\ ~StartsWithBestmove(line)
                        /\ result # ClosedBeforeBestmove)
    /\ stale_used' = FALSE
    /\ UNCHANGED cost_vars

NextReuse ==
    \/ StartSpawn
    \/ StartSendUci
    \/ StartWaitUciok
    \/ StartSendIsready
    \/ StartWaitReadyok
    \/ AnalyzeSendSetoption
    \/ AnalyzeSendIsready
    \/ ReuseWaitReadyok
    \/ AnalyzeSendPosition
    \/ AnalyzeSendGo
    \/ ReuseCollectReadLine
    \/ ReuseAnalyzeReturn
    \/ DropSendQuit
    \/ DropWait
    \/ EngineExit

SpecReuse == Init /\ [][NextReuse]_vars

----------------------------------------------------------------------------
(* The calls with their reads counted, and run to their return.  Each step *)
(* of a read loop is one read_line call; `reads` is set to 0 when a call   *)
(* begins.  What a read returns is taken from a line of each kind.         *)

\* a line of each kind the loops tell apart, the end of the output, an error
LiveOutcomes ==
    {r \in ReadOutcomes :
        r.kind = "line" =>
            r.text \in {<<"uciok">>, <<"readyok">>, <<"id", "name", "engine">>,
                        <<"bestmove", "e2e4">>, InfoLine("", "16", <<>>, <<"e2e4">>)}}

LiveStartWaitUciok ==
    /\ pc = "start_wait_uciok"
    /\ \E r \in LiveOutcomes : StartWaitUciokRead(r) /\ last_read' = r.kind
    /\ reads' = reads + 1
    /\ UNCHANGED eng_vars

LiveStartWaitReadyok ==
    /\ pc = "start_wait_readyok"
    /\ \E r \in LiveOutcomes : StartWaitReadyokRead(r) /\ last_read' = r.kind
    /\ reads' = reads + 1
    /\ UNCHANGED eng_vars

LiveAnalyzeSendSetoption ==
    /\ AnalyzeCall(Request("startfen", 5, 2))
    /\ reads' = 0
    /\ last_read' = "none"
    /\ UNCHANGED eng_vars

LiveAnalyzeWaitReadyok ==
    /\ pc = "an_wait_readyok"
    /\ \E r \in LiveOutcomes : AnalyzeWaitRead(r) /\ last_read' = r.kind
    /\ reads' = reads + 1
    /\ UNCHANGED eng_vars

LiveCollectReadLine ==
    /\ pc = "an_collect"
    /\ \E r \in LiveOutcomes : CollectRead(r) /\ last_read' = r.kind
    /\ reads' = reads + 1
    /\ UNCHANGED <<child, quits, calls, args, depth, multipv, wire, handshake>>
    /\ UNCHANGED fn_vars
    /\ UNCHANGED db_vars
    /\ UNCHANGED eng_vars

\* the steps the thread that runs start or analyze takes before the call
\* returns: it goes on as long as its reads and writes return
CallStep ==
    \/ StartSendUci
    \/ LiveStartWaitUciok
    \/ StartSendIsready
    \/ LiveStartWaitReadyok
    \/ AnalyzeSendIsready
    \/ LiveAnalyzeWaitReadyok
    \/ AnalyzeSendPosition
    \/ AnalyzeSendGo
    \/ LiveCollectReadLine

NextLive ==
    \/ StartSpawn
    \/ StartSendUci
    \/ LiveStartWaitUciok
    \/ StartSendIsready
    \/ LiveStartWaitReadyok
    \/ LiveAnalyzeSendSetoption
    \/ AnalyzeSendIsready
    \/ LiveAnalyzeWaitReadyok
    \/ AnalyzeSendPosition
    \/ AnalyzeSendGo
    \/ LiveCollectReadLine
    \/ AnalyzeReturn
    \/ DropSendQuit
    \/ DropWait
    \/ EngineExit

SpecLive == Init /\ [][NextLive]_vars /\ WF_vars(CallStep)

----------------------------------------------------------------------------
(* analyze_position / analyze_position_multipv: a session that is started, *)
(* used for one analyze call and dropped when the function returns.        *)

\* session.analyze_multipv(fen, depth, multipv), the only call on the session
OneShotAnalyze ==
    /\ calls = 0
    /\ AnalyzeSendSetoption

\* faulty variant: the session goes out of scope without its process being
\* waited for
OneShotDrop_no_wait ==
    /\ calls = 1
    /\ pc = "idle"
    /\ \/ wire' = <<Written(<<"quit">>)>>
       \/ wire' = <<WriteFailed(<<"quit">>)>>
    /\ pc' = "dropped"
    /\ UNCHANGED <<child, quits, calls, args, depth, multipv, i, line, best_by_rank,
                   result, handshake, depths_read>>
    /\ UNCHANGED fn_vars
    /\ UNCHANGED db_vars
    /\ UNCHANGED eng_vars
    /\ UNCHANGED cost_vars

\* the end of the function body: `session` goes out of scope with the value
\* of the call as the value of the function, and its Drop runs
OneShotDrop ==
    /\ calls = 1
    /\ DropSendQuit

NextOneShot ==
    \/ StartSpawn
    \/ StartSendUci
    \/ StartWaitUciok
    \/ StartSendIsready
    \/ StartWaitReadyok
    \/ OneShotAnalyze
    \/ AnalyzeSendIsready
    \/ AnalyzeWaitReadyok
    \/ AnalyzeSendPosition
    \/ AnalyzeSendGo
    \/ CollectReadLine
    \/ AnalyzeReturn
    \/ OneShotDrop
    \/ DropWait
    \/ EngineExit

SpecOneShot == Init /\ [][NextOneShot]_vars

----------------------------------------------------------------------------
(* parse_info_line applied on its own                                       *)

\* the longest run of tokens after the first one
MaxBody == 4

\* the tokens lines are made of: the keywords, the score kinds, two numbers
\* and one keyword the parser does not know
ParseVocabulary == {"depth", "multipv", "score", "cp", "mate", "pv", "16", "-3", "nodes"}

RECURSIVE SeqsUpTo(_, _)
SeqsUpTo(S, n) ==
    IF n = 0 THEN {<<>>}
    ELSE LET shorter == SeqsUpTo(S, n - 1)
         IN  shorter \cup {Append(b, t) : b \in {x \in shorter : Len(x) = n - 1}, t \in S}

\* the line of the test parse_info_line_cp_and_pv
CpPvLine ==
    <<"info", "depth", "16", "seldepth", "22", "multipv", "1", "score", "cp", "34",
      "nodes", "11111", "nps", "200000", "pv", "e2e4", "e7e5", "g1f3">>

\* the line of the test parse_info_line_mate
MateLine == <<"info", "depth", "21", "score", "mate", "-3", "pv", "h7h8q">>

\* lines where a keyword with a number is followed by a keyword with
\* something else in the place of the number, and then by at most one token
RepeatLines ==
    LET first == {<<"depth", "16">>, <<"multipv", "16">>, <<"score", "cp", "16">>,
                  <<"score", "mate", "-3">>}
        again == {<<"depth", "pv">>, <<"depth", "-3">>, <<"multipv", "nodes">>,
                  <<"multipv", "pv">>, <<"score", "cp", "nodes">>, <<"score", "cp", "pv">>,
                  <<"score", "mate", "depth">>, <<"score", "mate", "cp">>}
        tail == {<<>>, <<"16">>, <<"pv", "nodes">>}
    IN  {<<"info">> \o a \o b \o c : a \in first, b \in again, c \in tail}

\* lines with and without the marker, the two lines of the tests, and the
\* lines with a repeated keyword
ParseInputs ==
    LET bodies == SeqsUpTo(ParseVocabulary, MaxBody)
    IN  bodies \cup {<<"info">> \o b : b \in bodies}
               \cup {<<"information">> \o b : b \in SeqsUpTo(ParseVocabulary, 2)}
               \cup {CpPvLine, MateLine}
               \cup RepeatLines

InitParse ==
    /\ pc = "parse"
    /\ child = "none" /\ quits = FALSE /\ calls = 0
    /\ args = NoArgs /\ depth = 0 /\ multipv = 0
    /\ i = 0 /\ line = <<>> /\ best_by_rank = <<>>
    /\ result = Pending /\ wire = <<>> /\ handshake = <<>>
    /\ depths_read = <<>>
    /\ input \in ParseInputs
    /\ output = <<>>
    /\ searching = FALSE
    /\ stale_used = FALSE
    /\ reads = 0
    /\ last_read = "none"
    /\ games = <<>>

\* parse_info_line(line)
ApplyParse ==
    /\ pc = "parse"
    /\ output = <<>>
    /\ output' = <<parse_info_line(input)>>
    /\ UNCHANGED <<pc, child, quits, calls, args, depth, multipv, i, line,
                   best_by_rank, result, wire, handshake, depths_read, input>>
    /\ UNCHANGED eng_vars
    /\ UNCHANGED cost_vars
    /\ UNCHANGED db_vars

NextParse == ApplyParse

SpecParse == InitParse /\ [][NextParse]_vars

----------------------------------------------------------------------------
(* wait_for_uci_token applied on its own                                    *)

\* the longest output of the engine before it closes, and the largest max_lines
MaxStream == 3

\* what the engine may write: the two tokens, a line that contains one of
\* them, an empty line
WaitLines == {<<"readyok">>, <<"uciok">>, <<"info", "readyok">>, <<>>}

\* what read_line returns while the output is open: a line or an error
WaitReads ==
    {[kind |-> "line", text |-> l] : l \in WaitLines} \cup {[kind |-> "err", text |-> <<>>]}

EndOfStream == [kind |-> "eof", text |-> <<>>]

WaitInputs ==
    [stream : SeqsUpTo(WaitReads, MaxStream),
     token : {"readyok", "uciok"},
     max_lines : 0..MaxStream]

InitWait ==
    /\ pc = "wait"
    /\ child = "none" /\ quits = FALSE /\ calls = 0
    /\ args = NoArgs /\ depth = 0 /\ multipv = 0
    /\ i = 0 /\ line = <<>> /\ best_by_rank = <<>>
    /\ result = Pending /\ wire = <<>> /\ handshake = <<>>
    /\ depths_read = <<>>
    /\ input \in WaitInputs
    /\ output = <<>>
    /\ searching = FALSE
    /\ stale_used = FALSE
    /\ reads = 0
    /\ last_read = "none"
    /\ games = <<>>

\* for _ in 0..max_lines with max_lines = 0: the error after the loop
WaitNoRead ==
    /\ pc = "wait"
    /\ output = <<>>
    /\ input.max_lines = 0
    /\ output' = <<NotReceived>>
    /\ UNCHANGED <<pc, child, quits, calls, args, depth, multipv, i, line,
                   best_by_rank, result, wire, handshake, depths_read, input>>
    /\ UNCHANGED eng_vars
    /\ UNCHANGED cost_vars
    /\ UNCHANGED db_vars

\* one iteration of the loop of wait_for_uci_token
WaitReadLine ==
    /\ pc = "wait"
    /\ output = <<>>
    /\ input.max_lines > 0
    /\ LET r == IF i + 1 <= Len(input.stream) THEN input.stream[i + 1] ELSE EndOfStream
           outcome == wait_for_uci_token(r, input.token, i, input.max_lines)
       IN  /\ line' = r.text
           /\ CASE outcome = "ok" -> output' = <<Ok(<<>>)>> /\ UNCHANGED i
                [] outcome = "more" -> i' = i + 1 /\ UNCHANGED output
                [] OTHER -> output' = <<WaitError(outcome)>> /\ UNCHANGED i
    /\ UNCHANGED <<pc, child, quits, calls, args, depth, multipv,
                   best_by_rank, result, wire, handshake, depths_read, input>>
    /\ UNCHANGED eng_vars
    /\ UNCHANGED cost_vars
    /\ UNCHANGED db_vars

NextWait == WaitNoRead \/ WaitReadLine

SpecWait == InitWait /\ [][NextWait]_vars

----------------------------------------------------------------------------
(* the translation of one stored record into a result line, on its own      *)

\* the longest move sequence of the record
MaxPv == 3

\* move tokens: four that parse and one that does not
PvTokens == {"e2e4", "e7e5", "g1f3", "h7h8q", "zz"}

TranslateInputs ==
    [fen : {"startfen", "e4fen", "badfen"}, pv : SeqsUpTo(PvTokens, MaxPv)]

InitTranslate ==
    /\ pc = "translate"
    /\ child = "none" /\ quits = FALSE /\ calls = 0
    /\ args = NoArgs /\ depth = 0 /\ multipv = 0
    /\ i = 0 /\ line = <<>> /\ best_by_rank = <<>>
    /\ result = Pending /\ wire = <<>> /\ handshake = <<>>
    /\ depths_read = <<>>
    /\ input \in TranslateInputs
    /\ output = <<>>
    /\ searching = FALSE
    /\ stale_used = FALSE
    /\ reads = 0
    /\ last_read = "none"
    /\ games = <<>>

\* the code of collect_analysis_result after the read loop, with the record
\* of "info depth 16 pv <pv>" stored at rank 1 and no bestmove token
ApplyTranslate ==
    /\ pc = "translate"
    /\ output = <<>>
    /\ LET stored == [NoInfo EXCEPT !.depth = Some(16), !.pv = input.pv]
       IN  output' = <<Finalize((1 :> stored), None, input.fen, DefaultDepth)>>
    /\ UNCHANGED <<pc, child, quits, calls, args, depth, multipv, i, line,
                   best_by_rank, result, wire, handshake, depths_read, input>>
    /\ UNCHANGED eng_vars
    /\ UNCHANGED cost_vars
    /\ UNCHANGED db_vars

NextTranslate == ApplyTranslate

SpecTranslate == InitTranslate /\ [][NextTranslate]_vars

----------------------------------------------------------------------------
(* collect_analysis_result on a given engine output                         *)

\* what the engine may write after go: records of rank 1 at depth 16 with a
\* score and moves and with other moves, a deeper record without either, a
\* record of rank 2, records of rank 0 and 11, a bestmove line, another line
CollectLines ==
    {InfoLine("", "16", <<"score", "cp", "34">>, <<"e2e4">>),
     InfoLine("", "16", <<>>, <<"e7e5">>),
     InfoLine("", "21", <<>>, <<>>),
     InfoLine("2", "16", <<>>, <<"e2e4">>),
     InfoLine("0", "21", <<>>, <<"e2e4">>),
     InfoLine("11", "21", <<>>, <<"e2e4">>),
     <<"bestmove", "e2e4">>,
     <<"id", "name", "engine">>}

\* the engine's output from the go command to its end, up to the line bound
CollectInputs == SeqsUpTo(CollectLines, AnalysisLineBound)

CollectRequest == Request("startfen", 5, 2)

\* read_line on the output `stream` after n lines were read
ReadAt(stream, n) ==
    IF n + 1 <= Len(stream) THEN [kind |-> "line", text |-> stream[n + 1]] ELSE EndOfStream

\* the read loop and the code after it, from line n + 1 of the output on
RECURSIVE CollectFrom(_, _, _, _, _, _)
CollectFrom(stream, n, map, fen, requested_depth, requested_multipv) ==
    LET step == CollectStep(map, ReadAt(stream, n), n, fen, requested_depth, requested_multipv)
    IN  IF step.ret # <<>> THEN step.ret[1]
        ELSE CollectFrom(stream, n + 1, step.map, fen, requested_depth, requested_multipv)

collect_analysis_result(stream, fen, requested_depth, requested_multipv) ==
    CollectFrom(stream, 0, <<>>, fen, requested_depth, requested_multipv)

\* analyze_with_engine_io has written go on an established session
InitCollect ==
    /\ pc = "an_collect"
    /\ child = "running" /\ quits = FALSE /\ calls = 1
    /\ args = CollectRequest
    /\ depth = normalized_depth(CollectRequest.depth)
    /\ multipv = normalized_multipv(CollectRequest.multipv)
    /\ i = 0 /\ line = <<>> /\ best_by_rank = <<>>
    /\ result = Pending
    /\ wire = <<Written(SetoptionCommand(normalized_multipv(CollectRequest.multipv))),
                Written(<<"isready">>), Matched(<<"readyok">>),
                Written(PositionCommand(CollectRequest.fen)),
                Written(GoCommand(normalized_depth(CollectRequest.depth)))>>
    /\ handshake = <<Written(<<"uci">>), Matched(<<"uciok">>),
                     Written(<<"isready">>), Matched(<<"readyok">>)>>
    /\ depths_read = <<>>
    /\ input \in CollectInputs
    /\ output = <<>>
    /\ searching = FALSE
    /\ stale_used = FALSE
    /\ reads = 0
    /\ last_read = "none"
    /\ games = <<>>

\* one iteration of the read loop on the next line of the given output
StreamReadLine ==
    /\ pc = "an_collect"
    /\ CollectRead(ReadAt(input, i))
    /\ UNCHANGED <<child, quits, calls, args, depth, multipv, wire, handshake>>
    /\ UNCHANGED fn_vars
    /\ UNCHANGED db_vars
    /\ UNCHANGED eng_vars
    /\ UNCHANGED cost_vars

NextCollect == StreamReadLine

SpecCollect == InitCollect /\ [][NextCollect]_vars

----------------------------------------------------------------------------
(* One analyze call on a given output of the engine: the readyok wait and  *)
(* the read loop read from the same BufReader, one line after the other.   *)
(* `input` is the output from the isready command on, `reads` the number of *)
(* lines taken from it, `output` what the read loop has read.               *)

\* the most lines in the output
MaxOutput == 4

StreamLines ==
    {<<"readyok">>,
     InfoLine("", "16", <<>>, <<"e2e4">>),
     InfoLine("", "21", <<>>, <<"e7e5">>),
     <<"bestmove", "e2e4">>,
     <<"id", "name", "engine">>}

StreamInputs == SeqsUpTo(StreamLines, MaxOutput)

\* analyze_with_engine_io has written setoption and isready on an
\* established session
InitStream ==
    /\ pc = "an_wait_readyok"
    /\ child = "running" /\ quits = FALSE /\ calls = 1
    /\ args = CollectRequest
    /\ depth = normalized_depth(CollectRequest.depth)
    /\ multipv = normalized_multipv(CollectRequest.multipv)
    /\ i = 0 /\ line = <<>> /\ best_by_rank = <<>>
    /\ result = Pending
    /\ wire = <<Written(SetoptionCommand(normalized_multipv(CollectRequest.multipv))),
                Written(<<"isready">>)>>
    /\ handshake = <<Written(<<"uci">>), Matched(<<"uciok">>),
                     Written(<<"isready">>), Matched(<<"readyok">>)>>
    /\ depths_read = <<>>
    /\ input \in StreamInputs
    /\ output = <<>>
    /\ searching = FALSE
    /\ stale_used = FALSE
    /\ reads = 0
    /\ last_read = "none"
    /\ games = <<>>

\* faulty variant: the wait reads through a buffer of its own, and what the
\* buffer holds after the token is lost with it
StreamWaitReadyok_own_buffer ==
    /\ pc = "an_wait_readyok"
    /\ AnalyzeWaitRead(ReadAt(input, reads))
    /\ reads' = IF ReadAt(input, reads).text = <<"readyok">> THEN Len(input) ELSE reads + 1
    /\ last_read' = ReadAt(input, reads).kind
    /\ UNCHANGED eng_vars

\* one iteration of wait_for_uci_token(reader, "readyok", 20_000)? on the
\* next line of the output
StreamWaitReadyok ==
    /\ pc = "an_wait_readyok"
    /\ AnalyzeWaitRead(ReadAt(input, reads))
    /\ reads' = reads + 1
    /\ last_read' = ReadAt(input, reads).kind
    /\ UNCHANGED eng_vars

\* one iteration of the read loop of collect_analysis_result on the next
\* line of the output
StreamCollectReadLine ==
    /\ pc = "an_collect"
    /\ CollectRead(ReadAt(input, reads))
    /\ reads' = reads + 1
    /\ last_read' = ReadAt(input, reads).kind
    /\ output' = Append(output, ReadAt(input, reads))
    /\ UNCHANGED <<child, quits, calls, args, depth, multipv, wire, handshake, input>>
    /\ UNCHANGED db_vars
    /\ UNCHANGED eng_vars

NextStream ==
    \/ StreamWaitReadyok
    \/ AnalyzeSendPosition
    \/ AnalyzeSendGo
    \/ StreamCollectReadLine

SpecStream == InitStream /\ [][NextStream]_vars

----------------------------------------------------------------------------
(* run_engine_session (src/src/main.rs): the engine-session mode.  A       *)
(* command line is the sequence of its tab-separated fields, a reply line   *)
(* the sequence of its fields.  `input` holds the command lines read,       *)
(* `output` one entry for "ready" and one for every command line: the reply *)
(* lines written for it.  What an analyze call on the session returns is    *)
(* drawn from the results the session can return.                          *)

\* the most command lines read in a run
MaxCommands == 2

SessionCommands ==
    {<<"">>, <<" ", " ">>, <<"ping">>, <<"quit">>, <<"hello">>, <<"analyze">>,
     <<"analyze", "5", "startfen">>, <<"analyze", "x", "startfen">>,
     <<"analyze", "5", " ">>,
     <<"analyze-multipv", "5", "2", "startfen">>,
     <<"analyze-multipv", "5", "0", "startfen">>,
     <<"analyze-multipv", "5", "11", "startfen">>,
     <<"analyze-multipv", "5", "x", "startfen">>,
     <<"analyze-multipv", "x", "2", "startfen">>,
     <<"analyze-multipv", "5", "2">>}

\* parts.next().unwrap_or_default()
Field(fields, k) == IF k <= Len(fields) THEN fields[k] ELSE ""

\* str::trim of a field
TrimField(text) == IF text = " " THEN "" ELSE text

\* command_line.trim().is_empty()
IsBlank(fields) == \A k \in 1..Len(fields) : TrimField(fields[k]) = ""

\* command_line.starts_with("<name>\t")
StartsWithCommand(fields, name) == Len(fields) >= 2 /\ fields[1] = name

\* parse_u32(name, value)
parse_u32(name, value) ==
    IF ParseU32(value) = None
    THEN Err("Text", "invalid " \o name \o ", expected a non-negative integer")
    ELSE Ok(UnwrapOr(ParseU32(value), 0))

\* faulty variant: a width outside 1..=10 is passed on for the session to clamp
parse_multipv_passes(value) == parse_u32("multipv", value)

\* parse_multipv(value)
parse_multipv(value) ==
    LET parsed == parse_u32("multipv", value)
    IN  IF ~parsed.ok THEN parsed
        ELSE IF parsed.value = 0 \/ parsed.value > 10
        THEN Err("Text", "invalid multipv, expected an integer in range 1..=10")
        ELSE parsed

ErrLine(message) == <<"err", message>>

\* no analyze call is made for the command line: the reply, and whether the
\* loop ends after it
NoCall(reply, ends) == [call |-> <<>>, reply |-> reply, multi |-> FALSE, ends |-> ends]

\* session.analyze / session.analyze_multipv is called with `request`
Call(request, multi) == [call |-> <<request>>, reply |-> <<>>, multi |-> multi, ends |-> FALSE]

\* faulty variant: a command that is none of the four gets no reply
Dispatch_silent(fields) ==
    IF IsBlank(fields) THEN NoCall(<<>>, FALSE)
    ELSE IF fields = <<"quit">> THEN NoCall(<<<<"bye">>>>, TRUE)
    ELSE IF fields = <<"ping">> THEN NoCall(<<<<"pong">>>>, FALSE)
    ELSE IF StartsWithCommand(fields, "analyze-multipv")
    THEN IF TrimField(Field(fields, 4)) = ""
         THEN NoCall(<<ErrLine("fen is required")>>, FALSE)
         ELSE IF ~parse_u32("depth", Field(fields, 2)).ok
         THEN NoCall(<<ErrLine(parse_u32("depth", Field(fields, 2)).msg)>>, FALSE)
         ELSE IF ~parse_multipv(Field(fields, 3)).ok
         THEN NoCall(<<ErrLine(parse_multipv(Field(fields, 3)).msg)>>, FALSE)
         ELSE Call(Request(TrimField(Field(fields, 4)),
                           parse_u32("depth", Field(fields, 2)).value,
                           parse_multipv(Field(fields, 3)).value), TRUE)
    ELSE IF StartsWithCommand(fields, "analyze")
    THEN IF TrimField(Field(fields, 3)) = ""
         THEN NoCall(<<ErrLine("fen is required")>>, FALSE)
         ELSE IF ~parse_u32("depth", Field(fields, 2)).ok
         THEN NoCall(<<ErrLine(parse_u32("depth", Field(fields, 2)).msg)>>, FALSE)
         ELSE Call(Request(TrimField(Field(fields, 3)),
                           parse_u32("depth", Field(fields, 2)).value, 1), FALSE)
    ELSE NoCall(<<>>, FALSE)

\* the body of the loop up to the analyze call, for the command line read
Dispatch(fields) ==
    IF IsBlank(fields) THEN NoCall(<<>>, FALSE)
    ELSE IF fields = <<"quit">> THEN NoCall(<<<<"bye">>>>, TRUE)
    ELSE IF fields = <<"ping">> THEN NoCall(<<<<"pong">>>>, FALSE)
    ELSE IF StartsWithCommand(fields, "analyze-multipv")
    THEN IF TrimField(Field(fields, 4)) = ""
         THEN NoCall(<<ErrLine("fen is required")>>, FALSE)
         ELSE IF ~parse_u32("depth", Field(fields, 2)).ok
         THEN NoCall(<<ErrLine(parse_u32("depth", Field(fields, 2)).msg)>>, FALSE)
         ELSE IF ~parse_multipv(Field(fields, 3)).ok
         THEN NoCall(<<ErrLine(parse_multipv(Field(fields, 3)).msg)>>, FALSE)
         ELSE Call(Request(TrimField(Field(fields, 4)),
                           parse_u32("depth", Field(fields, 2)).value,
                           parse_multipv(Field(fields, 3)).value), TRUE)
    ELSE IF StartsWithCommand(fields, "analyze")
    THEN IF TrimField(Field(fields, 3)) = ""
         THEN NoCall(<<ErrLine("fen is required")>>, FALSE)
         ELSE IF ~parse_u32("depth", Field(fields, 2)).ok
         THEN NoCall(<<ErrLine(parse_u32("depth", Field(fields, 2)).msg)>>, FALSE)
         ELSE Call(Request(TrimField(Field(fields, 3)),
                           parse_u32("depth", Field(fields, 2)).value, 1), FALSE)
    ELSE NoCall(<<ErrLine("unknown command")>>, FALSE)

\* the reply to an analyze or analyze-multipv command once the call returned
CallReply(res, multi) ==
    IF ~res.ok THEN <<ErrLine(res.msg)>>
    ELSE IF ~multi THEN <<<<"ok", res.value.depth>>>>
    ELSE <<<<"ok-multipv", res.value.depth>>>>
            \o [k \in 1..Len(res.value.lines) |->
                   <<"line", res.value.lines[k].multipv_rank>>]
            \o <<<<"done">>>>

\* what the loop does after a call returned res: whether it ends
AfterCall_drops_on_error(res) == ~res.ok

\* after the match on the value of the call the loop goes on (continue)
AfterCall(res) == FALSE

\* what a call of analyze_with_engine_io on the session can return, with the
\* exchange with the engine that goes with it
SessionCallOutcomes(request) ==
    LET d == normalized_depth(request.depth)
        m == normalized_multipv(request.multipv)
        full == <<Written(SetoptionCommand(m)), Written(<<"isready">>),
                  Matched(<<"readyok">>), Written(PositionCommand(request.fen)),
                  Written(GoCommand(d))>>
        first == [NoInfo EXCEPT !.depth = Some(16), !.pv = <<"e2e4">>]
        second == [first EXCEPT !.multipv = 2]
    IN  {[result |-> Finalize((1 :> first), Some("e2e4"), request.fen, d), wire |-> full],
         [result |-> IoError, wire |-> <<WriteFailed(SetoptionCommand(m))>>],
         [result |-> NotReceived, wire |-> SubSeq(full, 1, 2)],
         [result |-> ClosedBeforeBestmove, wire |-> full]}
        \cup (IF m >= 2
              THEN {[result |-> Finalize((1 :> first) @@ (2 :> second), Some("e2e4"),
                                         request.fen, d),
                     wire |-> full]}
              ELSE {})

\* the value of run_engine_session is returned and `session` goes out of
\* scope: its Drop writes quit and waits for the process
SessionDrops ==
    /\ pc' = "drop_wait"
    /\ \/ wire' = <<Written(<<"quit">>)>>
       \/ wire' = <<WriteFailed(<<"quit">>)>>

\* an entry of `output`: the reply lines written, and whether a write failed
Replied(lines, failed) == [lines |-> lines, failed |-> failed]

\* write_session_line("ready")? after EngineSession::start returned Ok; the
\* locals of start are gone
SessionWriteReady ==
    /\ pc = "idle"
    /\ output = <<>>
    /\ i' = 0
    /\ line' = <<>>
    /\ \/ /\ output' = <<Replied(<<<<"ready">>>>, FALSE)>>
          /\ pc' = "sess_read"
          /\ UNCHANGED wire
       \/ /\ output' = <<Replied(<<>>, TRUE)>>
          /\ SessionDrops
    /\ UNCHANGED <<child, quits, calls, args, depth, multipv, best_by_rank,
                   result, handshake, depths_read, input>>
    /\ UNCHANGED db_vars
    /\ UNCHANGED eng_vars
    /\ UNCHANGED cost_vars

\* one turn of the loop on the command line read, with the value `outcome`
\* of the analyze call if one is made; `written` of the reply lines are
\* written before a write fails
SessionTurn(fields, outcome, written) ==
    LET plan == Dispatch(fields)
        called == plan.call # <<>>
        reply == IF called THEN CallReply(outcome.result, plan.multi) ELSE plan.reply
        failed == written < Len(reply)
        ends == failed \/ plan.ends \/ (called /\ AfterCall(outcome.result))
    IN  /\ written \in 0..Len(reply)
        /\ input' = Append(input, fields)
        /\ output' = Append(output, Replied(SubSeq(reply, 1, written), failed))
        /\ IF called
           THEN /\ calls' = calls + 1
                /\ args' = plan.call[1]
                /\ depth' = normalized_depth(plan.call[1].depth)
                /\ multipv' = normalized_multipv(plan.call[1].multipv)
                /\ result' = outcome.result
           ELSE UNCHANGED <<calls, args, depth, multipv, result>>
        /\ IF ends
           THEN SessionDrops
           ELSE /\ pc' = pc
                /\ wire' = IF called THEN outcome.wire ELSE wire

\* handle.read_line returned a command line
SessionReadCommand ==
    /\ pc = "sess_read"
    /\ Len(input) < MaxCommands
    /\ \E fields \in SessionCommands :
        LET request == IF Dispatch(fields).call # <<>> THEN Dispatch(fields).call[1]
                       ELSE NoArgs
        IN  \E outcome \in SessionCallOutcomes(request) :
                \E written \in 0..(MaxMultipv + 2) :
                    SessionTurn(fields, outcome, written)
    /\ UNCHANGED <<child, quits, i, line, best_by_rank, handshake, depths_read>>
    /\ UNCHANGED db_vars
    /\ UNCHANGED eng_vars
    /\ UNCHANGED cost_vars

\* handle.read_line returned Ok(0) (break) or an error (?): the loop ends
SessionInputEnds ==
    /\ pc = "sess_read"
    /\ SessionDrops
    /\ UNCHANGED <<child, quits, calls, args, depth, multipv, i, line, best_by_rank,
                   result, handshake, depths_read>>
    /\ UNCHANGED fn_vars
    /\ UNCHANGED db_vars
    /\ UNCHANGED eng_vars
    /\ UNCHANGED cost_vars

\* the options after <engine_path> <fen> on the analyze-multipv command line
CliOptions ==
    {<<>>, <<"--multipv", "2">>, <<"--multipv", "0">>, <<"--multipv", "11">>,
     <<"--depth", "5", "--multipv", "11">>, <<"--depth", "5", "--multipv", "10">>,
     <<"--multipv">>, <<"--multipv", "x">>, <<"--width", "2">>}

\* the while loop of parse_analyze_multipv_options from argument k on
RECURSIVE ParseOptionsFrom(_, _, _, _)
ParseOptionsFrom(options, k, d, m) ==
    IF k > Len(options) THEN Ok(Request("startfen", d, m))
    ELSE IF options[k] = "--depth"
    THEN IF k + 1 > Len(options) THEN Err("Text", "missing value for --depth")
         ELSE IF ~parse_u32("depth", options[k + 1]).ok
         THEN parse_u32("depth", options[k + 1])
         ELSE ParseOptionsFrom(options, k + 2, parse_u32("depth", options[k + 1]).value, m)
    ELSE IF options[k] = "--multipv"
    THEN IF k + 1 > Len(options) THEN Err("Text", "missing value for --multipv")
         ELSE IF ~parse_multipv(options[k + 1]).ok
         THEN parse_multipv(options[k + 1])
         ELSE ParseOptionsFrom(options, k + 2, d, parse_multipv(options[k + 1]).value)
    ELSE Err("Text", "unknown option")

\* parse_analyze_multipv_options(rest), with the fen of the command line
parse_analyze_multipv_options(options) == ParseOptionsFrom(options, 1, DefaultDepth, 1)

\* the analyze-multipv command line: the options are parsed, then
\* analyze_position_multipv starts a session, calls it once and drops it
CliAnalyzeMultipv ==
    /\ pc = "init"
    /\ \E options \in CliOptions :
        LET parsed == parse_analyze_multipv_options(options)
        IN  /\ input' = <<options>>
            /\ IF ~parsed.ok
               THEN /\ pc' = "cli_failed"
                    /\ result' = parsed
                    /\ UNCHANGED <<child, calls, args, depth, multipv, wire, output>>
               ELSE /\ pc' = "cli_done"
                    /\ args' = parsed.value
                    /\ depth' = normalized_depth(parsed.value.depth)
                    /\ multipv' = normalized_multipv(parsed.value.multipv)
                    /\ \/ /\ result' = SpawnError
                          /\ UNCHANGED <<child, calls, wire, output>>
                       \/ /\ \E outcome \in SessionCallOutcomes(parsed.value) :
                                /\ result' = outcome.result
                                /\ output' = IF outcome.result.ok
                                             THEN <<Replied(<<<<"summary">>>>, FALSE)>>
                                             ELSE output
                          /\ calls' = 1
                          /\ child' = "reaped"
                          /\ wire' = <<Written(<<"quit">>)>>
    /\ UNCHANGED <<quits, i, line, best_by_rank, handshake, depths_read>>
    /\ UNCHANGED db_vars
    /\ UNCHANGED eng_vars
    /\ UNCHANGED cost_vars

NextSession ==
    \/ CliAnalyzeMultipv
    \/ StartSpawn
    \/ StartSendUci
    \/ StartWaitUciok
    \/ StartSendIsready
    \/ StartWaitReadyok
    \/ SessionWriteReady
    \/ SessionReadCommand
    \/ SessionInputEnds
    \/ DropWait
    \/ EngineExit

SpecSession == Init /\ [][NextSession]_vars

----------------------------------------------------------------------------
(* import_pgn_file (src/src/import.rs) on the games table.  A PGN file is  *)
(* the sequence of its chunks, each given by what parse_game_chunk returns; *)
(* SQL NULL is None.                                                        *)

\* the most chunks in a file
MaxGames == 2

\* COALESCE(x, '')
Coalesce(x) == UnwrapOr(x, "")

\* TRIM(x): NULL for NULL, the text without the spaces at its ends
SqlTrim(x) ==
    IF x = None THEN None
    ELSE IF x = Some(" e4 ") THEN Some("e4")
    ELSE x

\* str::trim of a movetext built by SingleGameCollector::san
TrimMovetext(m) == IF m = " e4 " THEN "e4" ELSE m

\* the seven header columns as compared by the SQL statements
HeaderKey(row) ==
    <<Coalesce(row.event), Coalesce(row.site), Coalesce(row.date), Coalesce(row.white),
      Coalesce(row.black), Coalesce(row.result), Coalesce(row.eco)>>

\* the columns of idx_games_exact_unique
ExactKey(row) == Append(HeaderKey(row), Coalesce(SqlTrim(row.pgn)))

\* a row or a parsed game with the given Event tag and movetext column
GameRow(event, pgn) ==
    [event |-> event, site |-> Some("Berlin"), date |-> Some("2024.02.02"),
     white |-> Some("Alice"), black |-> Some("Bob"), result |-> Some("1-0"),
     eco |-> Some("C20"), pgn |-> pgn]

\* the rows of `table` at the positions in `keep`, in order
RECURSIVE RowsAt(_, _, _)
RowsAt(table, keep, k) ==
    IF k > Len(table) THEN <<>>
    ELSE (IF k \in keep THEN <<table[k]>> ELSE <<>>) \o RowsAt(table, keep, k + 1)

\* DELETE .. WHERE rowid NOT IN (SELECT MIN(rowid) .. GROUP BY the exact key)
cleanup_exact_duplicate_rows(table) ==
    RowsAt(table,
           {k \in 1..Len(table) :
               \A j \in 1..(k - 1) : ExactKey(table[j]) # ExactKey(table[k])},
           1)

\* DELETE the rows without movetext for which another row with the same
\* headers has movetext
cleanup_stale_empty_movetext_rows(table) ==
    RowsAt(table,
           {k \in 1..Len(table) :
               ~(/\ Coalesce(SqlTrim(table[k].pgn)) = ""
                 /\ \E j \in 1..Len(table) :
                       /\ j # k
                       /\ Coalesce(SqlTrim(table[j].pgn)) # ""
                       /\ HeaderKey(table[j]) = HeaderKey(table[k]))},
           1)

NoSummary == [total |-> 0, inserted |-> 0, skipped |-> 0, errors |-> 0]

\* faulty variant: a chunk that holds no game is counted in total only
ingest_game_chunk_errors_uncounted(state, chunk) ==
    LET counted == [state.summary EXCEPT !.total = @ + 1]
    IN  IF ~chunk.ok
        THEN [table |-> state.table, summary |-> counted]
        ELSE LET movetext == TrimMovetext(chunk.movetext)
                 row == GameRow(chunk.event, IF movetext = "" THEN None ELSE Some(movetext))
                 present == \E j \in 1..Len(state.table) :
                                ExactKey(state.table[j]) = ExactKey(row)
             IN  IF present
                 THEN [table |-> state.table,
                       summary |-> [counted EXCEPT !.skipped = @ + 1]]
                 ELSE [table |-> Append(state.table, row),
                       summary |-> [counted EXCEPT !.inserted = @ + 1]]

\* ingest_game_chunk: INSERT OR IGNORE under the unique index, and the counts
ingest_game_chunk(state, chunk) ==
    LET counted == [state.summary EXCEPT !.total = @ + 1]
    IN  IF ~chunk.ok
        THEN [table |-> state.table, summary |-> [counted EXCEPT !.errors = @ + 1]]
        ELSE LET movetext == TrimMovetext(chunk.movetext)
                 row == GameRow(chunk.event, IF movetext = "" THEN None ELSE Some(movetext))
                 present == \E j \in 1..Len(state.table) :
                                ExactKey(state.table[j]) = ExactKey(row)
             IN  IF present
                 THEN [table |-> state.table,
                       summary |-> [counted EXCEPT !.skipped = @ + 1]]
                 ELSE [table |-> Append(state.table, row),
                       summary |-> [counted EXCEPT !.inserted = @ + 1]]

\* PROGRESS_EMIT_GAMES_INTERVAL (1_000 in the code)
ProgressEmitGamesInterval == 2

\* maybe_emit_progress: the summaries reported so far, after the call;
\* `elapsed` is last_emit.elapsed() >= PROGRESS_EMIT_TIME_INTERVAL
maybe_emit_progress(summary, elapsed, progress) ==
    IF summary.total = 0 THEN progress
    ELSE IF summary.total % ProgressEmitGamesInterval = 0 \/ elapsed
    THEN Append(progress, summary)
    ELSE progress

\* the loop over the first `last` chunks of the file, from chunk k on;
\* elapsed[k] tells whether the time interval has passed after chunk k
RECURSIVE IngestFrom(_, _, _, _, _)
IngestFrom(file, k, last, state, elapsed) ==
    IF k > last THEN state
    ELSE LET ingested == ingest_game_chunk([table |-> state.table,
                                            summary |-> state.summary], file[k])
         IN  IngestFrom(file, k + 1, last,
                        [table |-> ingested.table,
                         summary |-> ingested.summary,
                         progress |-> maybe_emit_progress(ingested.summary, elapsed[k],
                                                          state.progress)],
                        elapsed)

\* import_pgn_file_with_progress up to the end of the loop when it stops
\* after `last` chunks: the first callback, then the loop
ImportLoop(table, file, last, elapsed) ==
    IngestFrom(file, 1, last,
               [table |-> cleanup_exact_duplicate_rows(table),
                summary |-> NoSummary,
                progress |-> <<NoSummary>>],
               elapsed)

\* the transaction of import_pgn_file_with_progress and the last callback
import_pgn_file_with_progress(table, file, elapsed) ==
    LET ingested == ImportLoop(table, file, Len(file), elapsed)
        fresh == cleanup_stale_empty_movetext_rows(ingested.table)
    IN  [table |-> cleanup_exact_duplicate_rows(fresh),
         summary |-> ingested.summary,
         progress |-> Append(ingested.progress, ingested.summary)]

\* import_pgn_file: the callback |_| {} drops what is reported, and the time
\* that passes changes nothing else
import_pgn_file(table, file) ==
    LET done == import_pgn_file_with_progress(table, file, [k \in 1..Len(file) |-> FALSE])
    IN  [table |-> done.table, summary |-> done.summary]

\* what parse_game_chunk returns for a chunk: a game, or an error
ParsedGame(event, movetext) == [ok |-> TRUE, event |-> event, movetext |-> movetext]
BadChunk == [ok |-> FALSE, event |-> None, movetext |-> ""]

\* chunks: a game with moves, the same headers without moves, games without
\* an Event tag and with an empty one, a chunk that holds no game
Chunks ==
    {ParsedGame(Some("Open"), "e4"), ParsedGame(Some("Open"), ""),
     ParsedGame(None, "e4"), ParsedGame(Some(""), "e4"), BadChunk}

ImportFiles == SeqsUpTo(Chunks, MaxGames)

\* tables before the first import: empty, and one written before the unique
\* index existed, with two equal rows
LegacyTables ==
    {<<>>,
     <<GameRow(Some("Open"), Some("e4")), GameRow(Some("Open"), Some(" e4 "))>>}

InitImport ==
    /\ pc = "import"
    /\ child = "none" /\ quits = FALSE /\ calls = 0
    /\ args = NoArgs /\ depth = 0 /\ multipv = 0
    /\ i = 0 /\ line = <<>> /\ best_by_rank = <<>>
    /\ result = Pending /\ wire = <<>> /\ handshake = <<>>
    /\ depths_read = <<>>
    /\ searching = FALSE /\ stale_used = FALSE
    /\ reads = 0
    /\ last_read = "none"
    /\ input = <<>>
    /\ output = <<>>
    /\ games \in LegacyTables

\* import_pgn_file(db_path, pgn_path) returns Ok(summary): `input` becomes
\* the file imported, `output` the summary and whether the import before
\* this one was of the same file
ImportPgnFile ==
    /\ pc = "import"
    /\ \E file \in ImportFiles :
        LET done == import_pgn_file(games, file)
        IN  /\ games' = done.table
            /\ output' = <<[ok |-> TRUE, summary |-> done.summary, again |-> input = <<file>>]>>
            /\ input' = <<file>>
    /\ UNCHANGED <<pc, child, quits, calls, args, depth, multipv, i, line,
                   best_by_rank, result, wire, handshake, depths_read>>
    /\ UNCHANGED eng_vars
    /\ UNCHANGED cost_vars

\* import_pgn_file returns Err (the file cannot be opened or read, or a
\* statement fails): the transaction is dropped without commit
ImportFails ==
    /\ pc = "import"
    /\ output' = <<[ok |-> FALSE, summary |-> NoSummary, again |-> FALSE]>>
    /\ input' = <<>>
    /\ UNCHANGED games
    /\ UNCHANGED <<pc, child, quits, calls, args, depth, multipv, i, line,
                   best_by_rank, result, wire, handshake, depths_read>>
    /\ UNCHANGED eng_vars
    /\ UNCHANGED cost_vars

NextImport == ImportPgnFile \/ ImportFails

SpecImport == InitImport /\ [][NextImport]_vars

----------------------------------------------------------------------------
(* import_pgn_file_with_progress with a callback that records what it is   *)
(* given: `input` is the file, `output` what the call returned and the     *)
(* summaries reported.                                                     *)

InitProgress ==
    /\ pc = "progress"
    /\ child = "none" /\ quits = FALSE /\ calls = 0
    /\ args = NoArgs /\ depth = 0 /\ multipv = 0
    /\ i = 0 /\ line = <<>> /\ best_by_rank = <<>>
    /\ result = Pending /\ wire = <<>> /\ handshake = <<>>
    /\ depths_read = <<>>
    /\ searching = FALSE /\ stale_used = FALSE
    /\ reads = 0
    /\ last_read = "none"
    /\ input \in ImportFiles
    /\ output = <<>>
    /\ games \in LegacyTables

\* the call returns Ok(summary)
ProgressImport ==
    /\ pc = "progress"
    /\ output = <<>>
    /\ \E elapsed \in [1..Len(input) -> BOOLEAN] :
        LET done == import_pgn_file_with_progress(games, input, elapsed)
        IN  /\ games' = done.table
            /\ output' = <<[ok |-> TRUE, summary |-> done.summary,
                            progress |-> done.progress]>>
    /\ UNCHANGED <<pc, child, quits, calls, args, depth, multipv, i, line,
                   best_by_rank, result, wire, handshake, depths_read, input>>
    /\ UNCHANGED eng_vars
    /\ UNCHANGED cost_vars

\* the call returns Err: before the first callback (the database or the file
\* cannot be opened, the first statements fail), or when a read or a
\* statement fails after `last` chunks; the transaction is dropped without
\* commit and there is no last callback
ProgressImportFails ==
    /\ pc = "progress"
    /\ output = <<>>
    /\ \/ output' = <<[ok |-> FALSE, summary |-> NoSummary, progress |-> <<>>]>>
       \/ \E last \in 0..Len(input) :
             \E elapsed \in [1..Len(input) -> BOOLEAN] :
                output' = <<[ok |-> FALSE, summary |-> NoSummary,
                             progress |-> ImportLoop(games, input, last, elapsed).progress]>>
    /\ UNCHANGED games
    /\ UNCHANGED <<pc, child, quits, calls, args, depth, multipv, i, line,
                   best_by_rank, result, wire, handshake, depths_read, input>>
    /\ UNCHANGED eng_vars
    /\ UNCHANGED cost_vars

NextProgress == ProgressImport \/ ProgressImportFails

SpecProgress == InitProgress /\ [][NextProgress]_vars

----------------------------------------------------------------------------
(* Properties.                                                             *)

Max(a, b) == IF a >= b THEN a ELSE b
Min(a, b) == IF a <= b THEN a ELSE b
MaxOf(S) == CHOOSE x \in S : \A y \in S : y <= x

\* a quit command was written or its write was attempted by the current call
QuitAttempted == \E k \in 1..Len(wire) : wire[k].text = <<"quit">>

\* an EngineSession value exists
SessionExists ==
    pc \in {"idle", "an_send_isready", "an_wait_readyok", "an_send_position",
            "an_send_go", "an_collect", "an_return", "drop_wait"}

\* an analyze call is in flight (an_return: at its return, locals still live)
AnalyzeInFlight ==
    pc \in {"an_send_isready", "an_wait_readyok", "an_send_position", "an_send_go",
            "an_collect", "an_return"}

\* the current call wrote its go command: collect_analysis_result was entered
GoWritten == \E k \in 1..Len(wire) : wire[k].io = "write" /\ wire[k].text[1] = "go"

\* the last line read, as a record (NoInfo when it does not parse)
LineInfo == UnwrapOr(parse_info_line(line), NoInfo)
LineIsRecord == parse_info_line(line) # None

\* C1: once the process was spawned, whenever the session has been abandoned
\* (start returned an error, or the session was dropped) a quit command was
\* attempted and the process was waited for.
C1_AbandonedProcessIsQuitAndReaped ==
    (child # "none" /\ pc \in {"start_failed", "dropped"})
        => (QuitAttempted /\ child = "reaped")

\* C2: a session exists only after "uci" was written, a line equal to uciok
\* read, "isready" written and a line equal to readyok read, in that order.
C2_SessionOnlyAfterHandshake ==
    SessionExists =>
        handshake = <<Written(<<"uci">>), Matched(<<"uciok">>),
                      Written(<<"isready">>), Matched(<<"readyok">>)>>

C2_Witness == pc = "an_collect" /\ i >= 1

\* C3: the teardown of a constructed session is never stuck: while it waits
\* for the process, a step that leads to the process being reaped is possible.
C3_TeardownCompletes == pc = "drop_wait" => ENABLED Next

\* C4: in every analyze call the exchange is setoption, isready, readyok
\* (read), position, go, in this order; a failed write ends the call.
ExpectedExchange ==
    <<[io |-> "write", head |-> "setoption"], [io |-> "write", head |-> "isready"],
      [io |-> "read", head |-> "readyok"], [io |-> "write", head |-> "position"],
      [io |-> "write", head |-> "go"]>>

C4_AnalyzeCommandOrder ==
    AnalyzeInFlight =>
        /\ Len(wire) <= Len(ExpectedExchange)
        /\ \A k \in 1..Len(wire) :
            /\ wire[k].text[1] = ExpectedExchange[k].head
            /\ \/ wire[k].io = ExpectedExchange[k].io
               \/ /\ wire[k].io = "write failed"
                  /\ ExpectedExchange[k].io = "write"
                  /\ k = Len(wire)
                  /\ pc = "an_return"
            /\ wire[k].io = "read" => wire[k].text = <<"readyok">>
        /\ pc = "an_collect" => Len(wire) = Len(ExpectedExchange)

C4_Witness == pc = "an_collect" /\ calls = 2 /\ i >= 1

\* C5: at every step of the read loop, a rank in [1, width] has a record
\* exactly when a record of that rank was read, and the depth kept (absent
\* counting as 0) is the maximum of the depths read for the rank; the line
\* returned for the rank reports that depth.
KeptDepth(r) == UnwrapOr(best_by_rank[r].depth, 0)

C5_KeptDepthIsMaximum ==
    /\ DOMAIN best_by_rank = DOMAIN depths_read
    /\ \A r \in DOMAIN depths_read : KeptDepth(r) = MaxOf(depths_read[r])
    /\ (pc = "an_return" /\ GoWritten /\ result.ok) =>
          \A k \in 1..Len(result.value.lines) :
              LET l == result.value.lines[k]
              IN  /\ l.multipv_rank \in DOMAIN depths_read
                  /\ MaxOf(depths_read[l.multipv_rank]) > 0
                        => l.depth = MaxOf(depths_read[l.multipv_rank])

\* depth 21 was read before depth 16 for rank 1, and 21 is kept
C5_Witness ==
    /\ pc = "an_collect"
    /\ LineIsRecord /\ LineInfo.multipv = 1 /\ LineInfo.depth = Some(16)
    /\ 1 \in DOMAIN depths_read /\ depths_read[1] = {16, 21}
    /\ KeptDepth(1) = 21

\* C6: when the read loop reads a record of a rank in [1, width] whose depth
\* equals the depth of the record kept for the rank, and exactly one of the
\* two has a non-empty move sequence, the one with the non-empty move sequence
\* is kept after the step.
C6_Step ==
    (pc = "an_collect" /\ i' = i + 1 /\ parse_info_line(line') # None) =>
        LET candidate == UnwrapOr(parse_info_line(line'), NoInfo)
            r == candidate.multipv
        IN  (/\ r \in 1..multipv
             /\ r \in DOMAIN best_by_rank
             /\ UnwrapOr(candidate.depth, 0) = KeptDepth(r)
             /\ (candidate.pv = <<>>) # (best_by_rank[r].pv = <<>>))
            => best_by_rank'[r] =
                   IF candidate.pv # <<>> THEN candidate ELSE best_by_rank[r]

C6_NonEmptyMovesPreferred == [][C6_Step]_vars

\* a record without moves was read at the depth of a kept record with moves
C6_Witness ==
    /\ pc = "an_collect"
    /\ LineIsRecord /\ LineInfo.multipv = 1 /\ LineInfo.pv = <<>>
    /\ 1 \in DOMAIN best_by_rank
    /\ UnwrapOr(LineInfo.depth, 0) = KeptDepth(1)
    /\ best_by_rank[1].pv # <<>>

\* C7: a successful analyze returns at least one line, every rank within
\* [1, normalized width], ranks strictly ascending (so none occurs twice).
C7_RankedLines ==
    (pc = "an_return" /\ result.ok) =>
        LET lines == result.value.lines
            width == Max(1, Min(args.multipv, 10))
        IN  /\ Len(lines) >= 1
            /\ \A k \in 1..Len(lines) : lines[k].multipv_rank \in 1..width
            /\ \A j, k \in 1..Len(lines) :
                  j < k => lines[j].multipv_rank < lines[k].multipv_rank

C7_Witness == pc = "an_return" /\ result.ok /\ Len(result.value.lines) = 2

\* C8: a bestmove line read by the read loop while no record is stored makes
\* analyze return the protocol error "no analysis info", also when the line
\* names a move.
C8_BestmoveWithoutInfoFails ==
    (pc = "an_return" /\ GoWritten /\ StartsWithBestmove(line)
        /\ DOMAIN best_by_rank = {})
        => (~result.ok /\ result = NoAnalysisInfo)

C8_Witness ==
    /\ pc = "an_return" /\ GoWritten
    /\ line = <<"bestmove", "e2e4">>
    /\ DOMAIN best_by_rank = {}
    /\ i >= 2

\* C9: when the read loop ends at its line bound without having read a
\* bestmove line, analyze returns a protocol error.
C9_LineBoundIsProtocolError ==
    (pc = "an_return" /\ GoWritten /\ i = AnalysisLineBound
        /\ ~StartsWithBestmove(line))
        => (~result.ok /\ result.kind = "Protocol")

\* C10: the value written by setoption and the width that filters the ranks
\* are max(1, min(w, 10)) for the requested width w.
C10_WidthClamped ==
    /\ \A w \in 0..(MaxMultipv + 2) : normalized_multipv(w) = Max(1, Min(w, 10))
    /\ AnalyzeInFlight =>
        LET width == Max(1, Min(args.multipv, 10))
        IN  /\ wire[1].text = <<"setoption", "name", "MultiPV", "value", FormatU32(width)>>
            /\ DOMAIN best_by_rank \subseteq 1..width
            /\ (pc \in {"an_collect", "an_return"} /\ GoWritten /\ LineIsRecord
                  /\ LineInfo.multipv \in 1..width)
                  => LineInfo.multipv \in DOMAIN best_by_rank

\* width 0 was requested and a record of rank 1 was kept
C10_Witness ==
    /\ pc = "an_collect"
    /\ args.multipv = 0
    /\ 1 \in DOMAIN best_by_rank

\* at the return of an analyze call whose read loop ran and that returned Ok
ReturnedOk == pc = "an_return" /\ GoWritten /\ result.ok

\* C11: a requested depth of 0 is sent as 18 and any other depth as it is,
\* and a returned line whose stored record has no depth reports that depth.
C11_DepthDefaulted ==
    /\ normalized_depth(0) = 18
    /\ \A d \in 1..21 : normalized_depth(d) = d
    /\ AnalyzeInFlight =>
        LET sent == IF args.depth = 0 THEN 18 ELSE args.depth
        IN  /\ \A k \in 1..Len(wire) :
                  wire[k].text[1] = "go" => wire[k].text = <<"go", "depth", FormatU32(sent)>>
            /\ ReturnedOk =>
                  \A k \in 1..Len(result.value.lines) :
                      LET l == result.value.lines[k]
                      IN  best_by_rank[l.multipv_rank].depth = None
                              => (l.depth = sent /\ l.depth # 0)

\* depth 0 was requested and a line without a depth of its own reports 18
C11_Witness ==
    /\ ReturnedOk
    /\ args.depth = 0
    /\ \E k \in 1..Len(result.value.lines) :
          /\ best_by_rank[result.value.lines[k].multipv_rank].depth = None
          /\ result.value.lines[k].depth = 18

\* C17: the best move of a successful result is the first translated move of
\* the primary line, else the token after bestmove on the terminal line
\* (unless missing or "(none)"), else the first move token of the primary
\* line, else absent.
PrimaryOf(lines) ==
    IF \E k \in 1..Len(lines) : lines[k].multipv_rank = 1
    THEN lines[CHOOSE k \in 1..Len(lines) : lines[k].multipv_rank = 1]
    ELSE lines[CHOOSE k \in 1..Len(lines) :
                  \A j \in 1..Len(lines) : lines[k].multipv_rank <= lines[j].multipv_rank]

\* the token after bestmove on the last line read, as an Option
TerminalToken ==
    IF Len(line) >= 2 /\ line[1] = "bestmove" /\ line[2] # "(none)"
    THEN {line[2]}
    ELSE {}

C17_BestmovePriority ==
    ReturnedOk =>
        LET primary == PrimaryOf(result.value.lines)
        IN  result.value.bestmove =
                IF primary.san_pv # <<>> THEN {primary.san_pv[1]}
                ELSE IF TerminalToken # {} THEN TerminalToken
                ELSE IF primary.pv # <<>> THEN {primary.pv[1]}
                ELSE {}

\* no move was translated, the bestmove line names e2e4 and the primary line
\* starts with another token: the bestmove token is reported
C17_Witness ==
    /\ ReturnedOk
    /\ PrimaryOf(result.value.lines).san_pv = <<>>
    /\ PrimaryOf(result.value.lines).pv = <<"h7h8q">>
    /\ line = <<"bestmove", "e2e4">>
    /\ result.value.bestmove = {"e2e4"}

C20_UnparseablePosition ==
    (/\ pc = "an_return" /\ GoWritten
     /\ ~FenParses(args.fen)
     /\ DOMAIN best_by_rank # {}
     /\ (StartsWithBestmove(line) \/ i = AnalysisLineBound))
    => /\ result.ok
       /\ Len(result.value.lines) = Cardinality(DOMAIN best_by_rank)
       /\ \A k \in 1..Len(result.value.lines) :
             LET l == result.value.lines[k]
             IN  /\ l.san_pv = <<>>
                 /\ l.pv = best_by_rank[l.multipv_rank].pv

C20_Witness ==
    /\ ReturnedOk
    /\ args.fen = "badfen"
    /\ \E k \in 1..Len(result.value.lines) : result.value.lines[k].pv = <<"e2e4">>

----------------------------------------------------------------------------
(* parse_info_line (SpecParse)                                              *)

\* parse_info_line has been applied to the line in `input`
Parsed == pc = "parse" /\ output # <<>>

\* the line starts with the word info followed by a space and more text
HasMarker(tokens) == tokens # <<>> /\ tokens[1] = "info" /\ tokens # <<"info">>

\* the number of tokens a keyword takes with its arguments
KeywordWidth(token) ==
    IF token \in {"depth", "multipv"} THEN 2 ELSE IF token = "score" THEN 3 ELSE 1

\* the positions of the tokens read as keywords, from `index` up to the
\* first pv keyword among them
RECURSIVE KeywordPositions(_, _)
KeywordPositions(tokens, index) ==
    IF index > Len(tokens) THEN {}
    ELSE IF tokens[index] = "pv" THEN {index}
    ELSE {index} \cup KeywordPositions(tokens, index + KeywordWidth(tokens[index]))

\* the boundaries (p: just before token p, Len + 1: the end of the line) that
\* are after the marker, not after the pv keyword and not inside a keyword
\* with its arguments
FreeBoundaries(tokens) ==
    LET at == KeywordPositions(tokens, 1)
        last == MaxOf(at)
        end == IF tokens[last] # "pv" /\ last + KeywordWidth(tokens[last]) = Len(tokens) + 1
               THEN {Len(tokens) + 1}
               ELSE {}
    IN  (at \ {1}) \cup end

InsertAt(tokens, p, extra) ==
    SubSeq(tokens, 1, p - 1) \o extra \o SubSeq(tokens, p, Len(tokens))

\* runs of tokens that are none of depth, multipv, score, pv
UnknownRuns ==
    {<<"nodes">>, <<"16">>, <<"-3">>, <<"cp">>, <<"mate">>, <<"seldepth", "22">>,
     <<"nodes", "11111", "nps", "200000">>}

\* the value written by a numeral
NumeralValue(token) == IF token = "16" THEN 16 ELSE -3

\* the record the scan has built when it arrives at position p
ScannedBefore(tokens, p) == ParseTokens(SubSeq(tokens, 1, p - 1), 1, NoInfo)

\* the record has a depth, a score or moves (a record with none of them is
\* not returned)
Carries(r) == r.depth # {} \/ r.score_cp # {} \/ r.score_mate # {} \/ r.pv # <<>>

\* C12: a line that does not start with the marker "info " parses to None,
\* whatever keywords it contains.
C12_NoMarkerNoResult ==
    (Parsed /\ ~HasMarker(input)) => output = <<None>>

\* a line without the marker that carries a depth, a score and moves
C12_Witness ==
    /\ Parsed
    /\ input = <<"depth", "16", "pv", "nodes">>
    /\ output = <<None>>

\* C13: inserting tokens that are no keyword at a boundary of an info line
\* that is before the pv keyword and not between a keyword and its arguments
\* leaves depth, scores, rank and move sequence as they were.
C13_UnknownTokensSkipped ==
    (Parsed /\ HasMarker(input)) =>
        /\ \A p \in FreeBoundaries(input) : \A extra \in UnknownRuns :
              parse_info_line(InsertAt(input, p, extra)) = output[1]
        /\ input = CpPvLine =>
              output[1] = parse_info_line(<<"info", "depth", "16", "multipv", "1",
                              "score", "cp", "34", "pv", "e2e4", "e7e5", "g1f3">>)

\* a line with a depth and a move: two free boundaries, and an insertion
\* at the first gives the record of the line itself
C13_Witness ==
    /\ Parsed
    /\ input = <<"info", "depth", "16", "pv", "nodes">>
    /\ FreeBoundaries(input) = {2, 4}
    /\ output = <<Some([NoInfo EXCEPT !.depth = Some(16), !.pv = <<"nodes">>])>>
    /\ parse_info_line(<<"info", "seldepth", "22", "depth", "16", "pv", "nodes">>) = output[1]

\* C14: "score cp N" sets the centipawn score to N and does not touch the
\* mate score, "score mate N" sets the mate score to N (negative too) and
\* does not touch the centipawn score; a line with one score keyword has the
\* other score absent; without a multipv keyword the rank is 1.
C14_ScoreKindsAndDefaultRank ==
    (Parsed /\ HasMarker(input)) =>
        LET at == KeywordPositions(input, 1)
            scores == {p \in at : /\ input[p] = "score" /\ p + 2 <= Len(input)
                                  /\ input[p + 1] \in {"cp", "mate"}
                                  /\ input[p + 2] \in {"16", "-3"}}
        IN  /\ \A p \in scores :
                  LET before == ScannedBefore(input, p)
                      after == ScannedBefore(input, p + 3)
                      n == NumeralValue(input[p + 2])
                  IN  /\ input[p + 1] = "cp" => after = [before EXCEPT !.score_cp = {n}]
                      /\ input[p + 1] = "mate" => after = [before EXCEPT !.score_mate = {n}]
            /\ \A p \in scores :
                  {q \in at : input[q] = "score"} = {p} =>
                      \E r \in output[1] :
                          /\ input[p + 1] = "cp" =>
                                (r.score_cp = {NumeralValue(input[p + 2])} /\ r.score_mate = {})
                          /\ input[p + 1] = "mate" =>
                                (r.score_mate = {NumeralValue(input[p + 2])} /\ r.score_cp = {})
            /\ (\A p \in at : input[p] # "multipv") =>
                  \A r \in output[1] : r.multipv = 1
            /\ input = MateLine =>
                  output = <<{[depth |-> {21}, score_cp |-> {}, score_mate |-> {-3},
                               pv |-> <<"h7h8q">>, multipv |-> 1]}>>
            /\ input = CpPvLine =>
                  output = <<{[depth |-> {16}, score_cp |-> {34}, score_mate |-> {},
                               pv |-> <<"e2e4", "e7e5", "g1f3">>, multipv |-> 1]}>>

\* the tested mate line: a negative mate score, no centipawn score, rank 1
C14_Witness ==
    /\ Parsed
    /\ input = MateLine
    /\ \E r \in output[1] : r.score_mate = {-3} /\ r.score_cp = {} /\ r.multipv = 1

\* C15: the first pv keyword read as a keyword ends the parse: the tokens
\* after it are the move sequence, in order, and depth, scores and rank are
\* those found before it.
C15_PvEndsParsing ==
    (Parsed /\ HasMarker(input)) =>
        \A p \in KeywordPositions(input, 1) :
            input[p] = "pv" =>
                LET before == ScannedBefore(input, p)
                    moves == SubSeq(input, p + 1, Len(input))
                    whole == [before EXCEPT !.pv = moves]
                IN  output[1] = IF Carries(whole) THEN {whole} ELSE None

\* keywords after pv are moves
C15_Witness ==
    /\ Parsed
    /\ input = <<"info", "pv", "depth", "16">>
    /\ output = <<{[NoInfo EXCEPT !.pv = <<"depth", "16">>]}>>

----------------------------------------------------------------------------
(* wait_for_uci_token (SpecWait)                                            *)

\* wait_for_uci_token has returned
Waited == pc = "wait" /\ output # <<>>

\* the k-th line of the engine's output is the token, trimmed
IsToken(k) ==
    /\ k <= Len(input.stream)
    /\ input.stream[k].kind = "line"
    /\ input.stream[k].text = <<input.token>>

\* the lines the function may read: the first max_lines ones before the end
Readable == 1..Min(input.max_lines, Len(input.stream))

\* no read among those before the first match fails
ReadsSucceed ==
    \A k \in Readable :
        input.stream[k].kind = "err" => \E j \in 1..(k - 1) : IsToken(j)

\* C16: the wait returns Ok exactly when one of the first max_lines lines
\* before the end of the output is the token after trimming; otherwise the
\* error is "closed" when the end is within the first max_lines reads and
\* "did not receive" when max_lines lines were read. A line that contains
\* the token among other text does not match.
C16_WaitOutcome ==
    (Waited /\ ReadsSucceed) =>
        /\ output[1].ok <=> \E k \in Readable : IsToken(k)
        /\ ~output[1].ok =>
              output[1] = IF Len(input.stream) < input.max_lines
                          THEN Err("Protocol", "engine closed output while waiting for token")
                          ELSE Err("Protocol", "did not receive token from engine")

\* the token is matched on the second line, after a line that contains it
C16_Witness ==
    /\ Waited
    /\ input.stream = <<[kind |-> "line", text |-> <<"info", "readyok">>],
                        [kind |-> "line", text |-> <<"readyok">>]>>
    /\ input.token = "readyok"
    /\ input.max_lines = 2
    /\ output = <<Ok(<<>>)>>

----------------------------------------------------------------------------
(* translation of a line's moves (SpecTranslate)                            *)

Translated == pc = "translate" /\ output # <<>>

\* the position reached from the one of `fen` by the first k tokens of pv
Reached(fen, pv, k) == PositionOf(fen) \o SubSeq(pv, 1, k)

\* each of the first k tokens parses and is legal where it is played
LegalPrefix(fen, pv, k) ==
    \A j \in 1..k :
        UciParses(pv[j]) /\ SanOfMove(Reached(fen, pv, j - 1), pv[j]) # None

\* C19: the translated sequence of a line is the notation of the longest
\* prefix of its move tokens in which every token parses and is legal in the
\* position reached by the tokens before it; the analysis succeeds and the
\* line keeps all its move tokens.
C19_TranslationStopsAtFirstFailure ==
    Translated =>
        /\ output[1].ok
        /\ Len(output[1].value.lines) = 1
        /\ LET l == output[1].value.lines[1]
               longest == IF FenParses(input.fen)
                          THEN MaxOf({k \in 0..Len(input.pv) :
                                          LegalPrefix(input.fen, input.pv, k)})
                          ELSE 0
           IN  /\ l.pv = input.pv
               /\ Len(l.san_pv) = longest
               /\ \A j \in 1..longest :
                     {l.san_pv[j]} = SanOfMove(Reached(input.fen, input.pv, j - 1), input.pv[j])

\* a token that does not parse between two legal moves: one move translated
C19_Witness ==
    /\ Translated
    /\ input = [fen |-> "startfen", pv |-> <<"e2e4", "zz", "e7e5">>]
    /\ output[1].ok
    /\ output[1].value.lines[1].san_pv = <<"e4">>
    /\ output[1].value.lines[1].pv = <<"e2e4", "zz", "e7e5">>

----------------------------------------------------------------------------
(* the read loop on a given engine output (SpecCollect)                     *)

\* the call on the output in `input` has returned
Collected == pc = "an_return" /\ input \in CollectInputs

IsBestmoveLine(l) == l # <<>> /\ l[1] = "bestmove"

\* lines that are neither a record nor a bestmove line
NoiseLines == {<<"id", "name", "engine">>, <<"readyok">>, <<"info", "string", "x">>, <<>>}

\* the read loop on this output is ended by a bestmove line or by the end of
\* the output, not by the line bound
WithinReadBound(stream) ==
    \/ \E k \in 1..Min(Len(stream), AnalysisLineBound) : IsBestmoveLine(stream[k])
    \/ Len(stream) < AnalysisLineBound

\* the record of the line the loop reads next, as a set (empty: no record)
NextRecord == IF i + 1 <= Len(input) THEN parse_info_line(input[i + 1]) ELSE {}

\* C22: inserting a line that is neither a record nor a bestmove line
\* anywhere in the engine's output, the line bound not being reached, leaves
\* the result of the call as it is; in particular it does not make it fail.
C22_NoiseLinesSkipped ==
    Collected =>
        \A p \in 1..(Len(input) + 1) : \A noise \in NoiseLines :
            LET longer == InsertAt(input, p, <<noise>>)
            IN  WithinReadBound(longer) =>
                    collect_analysis_result(longer, args.fen, depth, multipv) = result

\* a record and a bestmove line: the call succeeds, also with other lines
\* before and between them
C22_Witness ==
    /\ Collected
    /\ input = <<InfoLine("", "16", <<"score", "cp", "34">>, <<"e2e4">>), <<"bestmove", "e2e4">>>>
    /\ result.ok
    /\ collect_analysis_result(
           <<<<"readyok">>, input[1], <<"info", "string", "x">>, input[2]>>,
           args.fen, depth, multipv) = result

\* C25: when the output ends during the read loop before a bestmove line the
\* call returns the protocol error "engine closed output before sending
\* bestmove", also when records of ranks in range are stored.
C25_ClosedBeforeBestmove ==
    (/\ Collected
     /\ Len(input) < AnalysisLineBound
     /\ \A k \in 1..Len(input) : ~IsBestmoveLine(input[k]))
    => result = Err("Protocol", "engine closed output before sending bestmove")

\* the output ends after one record, which is stored
C25_Witness ==
    /\ Collected
    /\ input = <<InfoLine("", "16", <<"score", "cp", "34">>, <<"e2e4">>)>>
    /\ DOMAIN best_by_rank = {1}
    /\ ~result.ok /\ result.kind = "Protocol"

\* the line is a record of rank 0 or of a rank above the normalized width
OutOfRange(l) == \E rec \in parse_info_line(l) : rec.multipv = 0 \/ rec.multipv > multipv

\* C27: a record of rank 0 or of a rank above the normalized width leaves
\* the per-rank map as it is, and an output of such records only, followed by
\* a bestmove line, ends in the no-analysis-info protocol error.
C27_Step ==
    /\ (pc = "an_collect" /\ i + 1 <= Len(input) /\ OutOfRange(input[i + 1]))
           => best_by_rank' = best_by_rank
    /\ (/\ pc' = "an_return"
        /\ \E k \in 1..Min(Len(input), AnalysisLineBound) :
              /\ IsBestmoveLine(input[k])
              /\ \A j \in 1..(k - 1) : OutOfRange(input[j]))
           => result' = Err("Protocol", "engine returned no analysis info for this position")

C27_OutOfRangeRanksIgnored == [][C27_Step]_vars

\* records of rank 0 and 11, then bestmove
C27_Witness ==
    /\ Collected
    /\ input = <<InfoLine("0", "21", <<>>, <<"e2e4">>), InfoLine("11", "21", <<>>, <<"e2e4">>),
                 <<"bestmove", "e2e4">>>>
    /\ best_by_rank = <<>>
    /\ ~result.ok

\* C28: a record of strictly greater depth replaces the stored record of its
\* rank, also when it has no score and no moves and the stored one has both;
\* the line of that rank then has no moves and no score.
C28_Step ==
    (pc = "an_collect") =>
        \A rec \in NextRecord :
            (/\ ~OutOfRange(input[i + 1])
             /\ rec.multipv \in DOMAIN best_by_rank
             /\ UnwrapOr(rec.depth, 0) > UnwrapOr(best_by_rank[rec.multipv].depth, 0))
            => /\ best_by_rank'[rec.multipv] = rec
               /\ (pc' = "an_return" /\ result'.ok) =>
                     \E k \in 1..Len(result'.value.lines) :
                         LET l == result'.value.lines[k]
                         IN  /\ l.multipv_rank = rec.multipv
                             /\ l.pv = rec.pv
                             /\ l.score_cp = rec.score_cp
                             /\ l.score_mate = rec.score_mate

C28_DeeperRecordReplaces == [][C28_Step]_vars

\* a record with score and moves at depth 16, then one at depth 21 without
C28_Witness ==
    /\ Collected
    /\ input = <<InfoLine("", "16", <<"score", "cp", "34">>, <<"e2e4">>),
                 InfoLine("", "21", <<>>, <<>>), <<"bestmove", "e2e4">>>>
    /\ result.ok
    /\ result.value.lines[1].depth = 21
    /\ result.value.lines[1].pv = <<>>
    /\ result.value.lines[1].score_cp = {}

\* C29: a record of the depth of the stored record of its rank, with moves
\* when the stored one has moves and without when it has none, is discarded:
\* the first record read at that depth stays.
C29_Step ==
    (pc = "an_collect") =>
        \A rec \in NextRecord :
            (/\ ~OutOfRange(input[i + 1])
             /\ rec.multipv \in DOMAIN best_by_rank
             /\ UnwrapOr(rec.depth, 0) = UnwrapOr(best_by_rank[rec.multipv].depth, 0)
             /\ (rec.pv = <<>>) <=> (best_by_rank[rec.multipv].pv = <<>>))
            => best_by_rank' = best_by_rank

C29_FirstAtDepthKept == [][C29_Step]_vars

\* two records of rank 1 at depth 16 with different moves: the first is returned
C29_Witness ==
    /\ Collected
    /\ input = <<InfoLine("", "16", <<"score", "cp", "34">>, <<"e2e4">>),
                 InfoLine("", "16", <<>>, <<"e7e5">>), <<"bestmove", "e2e4">>>>
    /\ result.ok
    /\ result.value.lines[1].pv = <<"e2e4">>
    /\ result.value.lines[1].score_cp = {34}

----------------------------------------------------------------------------
(* the session across calls (Spec)                                          *)

\* C21: when the engine executable cannot be started, start returns the
\* Spawn error, not Protocol or Io; no command is written, no handshake is
\* attempted and no session exists.
C21_SpawnFailure ==
    /\ (pc # "init" /\ child = "none") =>
           /\ pc = "start_failed"
           /\ result = Err("Spawn", "failed to start engine")
           /\ wire = <<>>
           /\ handshake = <<>>
           /\ ~SessionExists
    /\ result.kind = "Spawn" => child = "none"

\* the spawn has failed
C21_Witness ==
    /\ pc = "start_failed"
    /\ child = "none"
    /\ result.kind = "Spawn"
    /\ wire = <<>>

\* C23: the per-rank map and the bestmove token start empty in every call:
\* the map is empty when the read loop is entered, every record in it was
\* parsed from a line read by this call, and the lines and the bestmove of
\* the result come from that map and from the line that ended the loop.
C23_Step ==
    /\ (pc' = "an_collect" /\ pc # "an_collect") =>
           (best_by_rank' = <<>> /\ line' = <<>>)
    /\ (pc = "an_collect") =>
           \A rank \in DOMAIN best_by_rank' :
               \/ rank \in DOMAIN best_by_rank /\ best_by_rank'[rank] = best_by_rank[rank]
               \/ parse_info_line(line') = {best_by_rank'[rank]}
    /\ (pc = "an_collect" /\ pc' = "an_return" /\ result'.ok) =>
           LET lines == result'.value.lines
               token == IF Len(line') >= 2 /\ line'[1] = "bestmove" THEN {line'[2]} ELSE {}
           IN  /\ {lines[k].multipv_rank : k \in 1..Len(lines)} = DOMAIN best_by_rank'
               /\ \A k \in 1..Len(lines) :
                     LET rec == best_by_rank'[lines[k].multipv_rank]
                     IN  /\ lines[k].pv = rec.pv
                         /\ lines[k].score_cp = rec.score_cp
                         /\ lines[k].score_mate = rec.score_mate
                         /\ rec.depth # {} => rec.depth = {lines[k].depth}
               /\ result'.value.bestmove \subseteq
                     token \cup {l.san_pv[1] : l \in {lines[k] : k \in {j \in 1..Len(lines) : lines[j].san_pv # <<>>}}}
                           \cup {l.pv[1] : l \in {lines[k] : k \in {j \in 1..Len(lines) : lines[j].pv # <<>>}}}

C23_CallsShareNoRecords == [][C23_Step]_vars

\* the second call on a session returns one line, of rank 2
C23_Witness ==
    /\ calls = 2
    /\ ReturnedOk
    /\ DOMAIN best_by_rank = {2}
    /\ Len(result.value.lines) = 1

----------------------------------------------------------------------------
(* a session used again (SpecReuse)                                         *)

\* C26: every record and the bestmove token that a call aggregates were
\* written by the engine in answer to the go command of that call; output of
\* a search that an earlier call left running is not taken for the new
\* position.
C26_OwnOutputOnly == ReturnedOk => ~stale_used

----------------------------------------------------------------------------
(* import (SpecImport)                                                      *)

\* no two rows are equal on the eight columns, NULL counting as ''
NoDuplicateRows ==
    \A j, k \in 1..Len(games) : ExactKey(games[j]) = ExactKey(games[k]) => j = k

\* an import has returned Ok
Imported == pc = "import" /\ output # <<>> /\ output[1].ok

\* C24: importing a file again right after it was imported reports
\* inserted = 0 and skipped = total, and after every import no two rows of
\* the games table are equal on (event, site, date, white, black, result,
\* eco, trimmed movetext) with NULL as the empty string.
C24_ReimportInsertsNothing ==
    Imported =>
        /\ output[1].again =>
              (output[1].summary.inserted = 0
                  /\ output[1].summary.skipped = output[1].summary.total)
        /\ NoDuplicateRows

\* after every import the rows are pairwise different
RowsUniqueAfterImport == Imported => NoDuplicateRows

----------------------------------------------------------------------------
(* reads and termination (SpecLive)                                         *)

\* EngineSession::start is running
InStart ==
    pc \in {"start_send_uci", "start_wait_uciok", "start_send_isready", "start_wait_readyok"}

\* start has returned and no analyze call has begun since
StartReturned == pc = "start_failed" \/ (pc = "idle" /\ calls = 0)

\* the reads of a start are at most two token waits, those of an analyze call
\* at most a token wait and the read loop
ReadsBounded ==
    /\ (InStart \/ StartReturned) => reads <= 2 * TokenLineBound
    /\ AnalyzeInFlight => reads <= TokenLineBound + AnalysisLineBound

\* C30: a start performs at most 2 x 20,000 reads and an analyze call at most
\* 20,000 + 50,000; as long as every read returns, every start and every
\* analyze call returns a result or an error.
C30_ReadsBoundedCallsReturn ==
    /\ []ReadsBounded
    /\ (InStart ~> (StartReturned /\ result # Pending))
    /\ (AnalyzeInFlight ~> (pc = "an_return" /\ result # Pending))

\* an analyze call returns after the most reads it can make
C30_Witness ==
    /\ pc = "an_return"
    /\ reads = TokenLineBound + AnalysisLineBound
    /\ handshake # <<>>

----------------------------------------------------------------------------
(* the first failing step ends the call (SpecLive)                          *)

\* the step is a token wait reading a line
WaitPcs == {"start_wait_uciok", "start_wait_readyok", "an_wait_readyok"}

\* the token the wait at pc p awaits
AwaitedToken(p) == IF p = "start_wait_uciok" THEN "uciok" ELSE "readyok"

\* the call in flight has ended
CallEnded == pc \in {"start_failed", "an_return"}

\* the last entry of the log of the call is a failed write
LastWriteFailed == wire # <<>> /\ wire[Len(wire)].io = "write failed"

\* a step of start or analyze (the drop of the session is not one)
C31_Step ==
    LET call_step == pc \in {"start_send_uci", "start_wait_uciok", "start_send_isready",
                             "start_wait_readyok", "idle", "an_send_isready",
                             "an_wait_readyok", "an_send_position", "an_send_go",
                             "an_collect"}
                     /\ pc' # "drop_wait"
        write_failed == pc \notin WaitPcs \cup {"an_collect"} /\ LastWriteFailed'
        read_step == reads' = reads + 1
        read_failed == read_step /\ last_read' = "err"
        closed_waiting == read_step /\ pc \in WaitPcs /\ last_read' = "eof"
        bound_waiting == /\ read_step /\ pc \in WaitPcs /\ last_read' = "line"
                         /\ line' # <<AwaitedToken(pc)>>
                         /\ i + 1 >= TokenLineBound
    IN  /\ call_step =>
            /\ (write_failed \/ read_failed) =>
                   CallEnded' /\ ~result'.ok /\ result'.kind = "Io"
            /\ closed_waiting =>
                   CallEnded' /\ result' = Err("Protocol", ClosedWaiting.msg)
            /\ bound_waiting =>
                   CallEnded' /\ result' = Err("Protocol", NotReceived.msg)
            /\ (CallEnded' /\ result'.kind = "Io") => (write_failed \/ read_failed)
            /\ (write_failed \/ read_failed \/ closed_waiting \/ bound_waiting)
                   => \A k \in 1..Len(wire') :
                          wire'[k].io = "write failed" => k = Len(wire')
        \* nothing is written once the call has ended
        /\ CallEnded => wire' = wire /\ result' = result

\* C31: in start and in analyze the first failing step (a failed write, a
\* failed read, the end of the output or the line bound while a token is
\* awaited) ends the call with that error and nothing more is written; a
\* failure of the pipe is returned as Io, never as Protocol or as a result,
\* and Io is returned for nothing else.
C31_FirstFailureEndsCall == [][C31_Step]_vars

\* an analyze call has ended with Io on a failed read of its read loop,
\* after its go command was written
C31_Witness ==
    /\ pc = "an_return"
    /\ result.kind = "Io"
    /\ last_read = "err"
    /\ GoWritten

----------------------------------------------------------------------------
(* lines without content (SpecParse)                                        *)

\* the positions where `keyword` is read as a keyword with n arguments present
ReadAsKeyword(tokens, keyword, n) ==
    {p \in KeywordPositions(tokens, 1) : tokens[p] = keyword /\ p + n <= Len(tokens)}

\* the line sets a depth: some depth keyword has an unsigned integer argument
SetsDepth(tokens) ==
    \E p \in ReadAsKeyword(tokens, "depth", 1) : ParseU32(tokens[p + 1]) # None

\* the line sets a score of the kind: the last "score <kind> x" has an integer x
SetsScore(tokens, kind) ==
    LET at == {p \in ReadAsKeyword(tokens, "score", 2) : tokens[p + 1] = kind}
    IN  at # {} /\ ParseI32(tokens[MaxOf(at) + 2]) # None

\* the line has a move token: a token follows the pv keyword
SetsMoves(tokens) == ReadAsKeyword(tokens, "pv", 1) # {}

\* the maps the read loop may hold when the line is read
SomeMaps ==
    {<<>>, (1 :> [NoInfo EXCEPT !.depth = Some(16)]),
     (16 :> [NoInfo EXCEPT !.depth = Some(16), !.multipv = 16])}

\* C32: a line with the marker yields no record exactly when it sets no
\* depth, no centipawn score, no mate score and no move token; such a line,
\* e.g. one with only a rank and unknown keywords, leaves every map of the
\* read loop as it is.
C32_NoContentNoRecord ==
    (Parsed /\ HasMarker(input)) =>
        /\ output[1] = None <=>
              ~(\/ SetsDepth(input)
                \/ SetsScore(input, "cp")
                \/ SetsScore(input, "mate")
                \/ SetsMoves(input))
        /\ output[1] = None =>
              \A map \in SomeMaps : UpdateBest(map, output[1], 16) = map

\* a line with a rank and an unknown keyword only
C32_Witness ==
    /\ Parsed
    /\ input = <<"info", "multipv", "16", "nodes">>
    /\ output[1] = None

----------------------------------------------------------------------------
(* analyze_position (SpecOneShot)                                           *)

\* analyze_position_multipv has returned the value of its analyze call
OneShotReturned == pc = "dropped"

\* C33: once start has succeeded in analyze_position or
\* analyze_position_multipv, the function returns only after the quit
\* command was attempted and the process was waited for, whether the analyze
\* call returned a result or an error.
C33_OneShotQuitsAndReaps ==
    OneShotReturned =>
        /\ calls = 1 /\ result # Pending
        /\ wire \in {<<Written(<<"quit">>)>>, <<WriteFailed(<<"quit">>)>>}
        /\ child = "reaped"

\* the function has returned the error of its analyze call
C33_Witness ==
    /\ OneShotReturned
    /\ ~result.ok
    /\ child = "reaped"

----------------------------------------------------------------------------
(* the wait and the read loop on one output (SpecStream)                    *)

MinOf(S) == CHOOSE x \in S : \A y \in S : x <= y

\* the positions of the lines equal to readyok that the wait can reach
TokenAt == {k \in 1..Min(Len(input), TokenLineBound) : input[k] = <<"readyok">>}

\* C34: the readyok wait takes the output up to and including the first line
\* equal to readyok and no further; the read loop reads the lines after it,
\* starting with the next one, and the lines before it change nothing: the
\* call returns what the read loop returns on the output after that line.
C34_WaitStopsAtToken ==
    /\ pc \in {"an_send_position", "an_send_go"} =>
          TokenAt # {} /\ reads = MinOf(TokenAt)
    /\ pc \in {"an_collect", "an_return"} /\ GoWritten =>
          /\ TokenAt # {}
          /\ \A k \in 1..Len(output) : output[k] = ReadAt(input, MinOf(TokenAt) + k - 1)
          /\ reads = MinOf(TokenAt) + Len(output)
    /\ pc = "an_return" /\ GoWritten =>
          result = collect_analysis_result(
                       SubSeq(input, MinOf(TokenAt) + 1, Len(input)),
                       args.fen, depth, multipv)

\* a record and a bestmove line come before readyok, a record after it
C34_Witness ==
    /\ pc = "an_return"
    /\ input = <<InfoLine("", "21", <<>>, <<"e7e5">>), <<"readyok">>,
                 InfoLine("", "16", <<>>, <<"e2e4">>), <<"bestmove", "e2e4">>>>
    /\ ReturnedOk
    /\ output[1].text = InfoLine("", "16", <<>>, <<"e2e4">>)

----------------------------------------------------------------------------
(* engine-session mode (SpecSession)                                        *)

\* the handshake of EngineSession::start
FullHandshake ==
    <<Written(<<"uci">>), Matched(<<"uciok">>), Written(<<"isready">>), Matched(<<"readyok">>)>>

\* the engine-session loop has ended
LoopEnded == pc \in {"drop_wait", "dropped"}

\* the first fields of the reply lines
Tags(lines) == [k \in 1..Len(lines) |-> lines[k][1]]

\* the reply block that goes with a command line
BlockFor(fields, lines) ==
    IF \A k \in 1..Len(fields) : fields[k] \in {"", " "} THEN lines = <<>>
    ELSE IF fields = <<"ping">> THEN lines = <<<<"pong">>>>
    ELSE IF fields = <<"quit">> THEN lines = <<<<"bye">>>>
    ELSE IF fields[1] = "analyze" /\ Len(fields) >= 2
    THEN Tags(lines) \in {<<"ok">>, <<"err">>}
    ELSE IF fields[1] = "analyze-multipv" /\ Len(fields) >= 2
    THEN \/ Tags(lines) = <<"err">>
         \/ /\ Len(lines) >= 2
            /\ Tags(lines) = <<"ok-multipv">>
                                \o [k \in 1..(Len(lines) - 2) |-> "line"]
                                \o <<"done">>
    ELSE lines = <<<<"err", "unknown command">>>>

\* run_engine_session has got past EngineSession::start
InSession == pc \in {"sess_read", "drop_wait", "dropped"} \/ (pc = "idle" /\ output # <<>>)

\* C35: in engine-session mode ready is written only after the handshake
\* succeeded; afterwards every command line that is not blank gets exactly one
\* reply block, written in full before the next line is read: pong for ping,
\* bye for quit (the loop then ends), one ok or err line for analyze,
\* ok-multipv, line rows and done, or one err line, for analyze-multipv, and
\* err unknown command otherwise.  Only a failed write cuts a block short,
\* and it ends the loop.
C35_OneReplyBlockPerLine ==
    (output # <<>> /\ pc \notin {"cli_done", "cli_failed"}) =>
        /\ handshake = FullHandshake
        /\ ~output[1].failed => output[1].lines = <<<<"ready">>>>
        /\ Len(output) = Len(input) + 1
        /\ \A k \in 1..Len(output) :
              output[k].failed => (k = Len(output) /\ LoopEnded)
        /\ \A k \in 1..Len(input) :
              /\ ~output[k + 1].failed => BlockFor(input[k], output[k + 1].lines)
              /\ input[k] = <<"quit">> => (k = Len(input) /\ LoopEnded)

\* an analyze-multipv command was answered with four lines, then a ping
C35_Witness ==
    /\ pc = "sess_read"
    /\ input = <<<<"analyze-multipv", "5", "2", "startfen">>, <<"ping">>>>
    /\ Tags(output[2].lines) = <<"ok-multipv", "line", "line", "done">>
    /\ output[3].lines = <<<<"pong">>>>

\* a step of the loop in which an analyze call returned an error, and the
\* steps that end the loop
C36_Step ==
    LET last == output'[Len(output')]
    IN  /\ (pc = "sess_read" /\ calls' = calls + 1 /\ ~result'.ok) =>
              /\ last.lines = IF last.failed THEN <<>> ELSE <<<<"err", result'.msg>>>>
              /\ ~last.failed => pc' = "sess_read"
              /\ child = "running" /\ child' = "running"
              /\ handshake' = handshake
        /\ (pc = "sess_read" /\ pc' # "sess_read") =>
              /\ pc' = "drop_wait"
              /\ \/ input' = input
                 \/ input'[Len(input')] = <<"quit">>
                 \/ last.failed

\* C36: in engine-session mode a failed analyze or analyze-multipv call is
\* answered with one err line and the loop goes on with the same session and
\* the same engine process, on which the later analyze commands run; the
\* session is dropped only when the loop ends: on quit, at the end of the
\* input, or when a write of the output fails.
C36_SessionKeptAfterError == [][C36_Step]_vars

\* a call that failed with a protocol error was followed by a call on the
\* same session that returned a result
C36_Witness ==
    /\ pc = "sess_read"
    /\ calls = 2
    /\ child = "running"
    /\ output[2].lines = <<<<"err", ClosedBeforeBestmove.msg>>>>
    /\ Tags(output[3].lines) = <<"ok">>

\* the widths an option list asks for
WidthsAsked(options) ==
    {ParseU32(options[k + 1]) :
        k \in {j \in 1..(Len(options) - 1) : options[j] = "--multipv"}}

\* a width of 0 or above 10
BadWidth(w) == w # None /\ \E v \in w : v = 0 \/ v > 10

\* the command line read asks for a width of 0 or above 10
C37_Step ==
    LET fields == input'[Len(input')]
        last == output'[Len(output')]
    IN  /\ (/\ pc = "sess_read" /\ input' # input
            /\ fields[1] = "analyze-multipv" /\ Len(fields) >= 3
            /\ BadWidth(ParseU32(fields[3]))) =>
               /\ calls' = calls /\ args' = args /\ result' = result
               /\ pc' = "sess_read" => wire' = wire
               /\ ~last.failed => Tags(last.lines) = <<"err">>
        /\ (/\ pc = "init" /\ input' # input
            /\ \E w \in WidthsAsked(input'[1]) : BadWidth(w)) =>
               /\ pc' = "cli_failed" /\ ~result'.ok
               /\ calls' = 0 /\ child' = "none" /\ wire' = <<>> /\ output' = <<>>

\* C37: in engine-session mode and on the analyze-multipv command line a
\* width of 0 or above 10 is answered with an error, no analyze call is made
\* and nothing is written to the engine for it: the width is not clamped
\* into 1..10 there.
C37_BadWidthIsRejected == [][C37_Step]_vars

\* the session answered a width of 11 with an error after a call with width 2
C37_Witness ==
    /\ pc = "sess_read"
    /\ input = <<<<"analyze-multipv", "5", "2", "startfen">>,
                 <<"analyze-multipv", "5", "11", "startfen">>>>
    /\ calls = 1
    /\ Tags(output[3].lines) = <<"err">>

----------------------------------------------------------------------------
(* the progress of an import (SpecProgress)                                 *)

\* total = inserted + skipped + errors
Balanced(summary) == summary.total = summary.inserted + summary.skipped + summary.errors

\* no counter of `later` is below that of `earlier`
NotBelow(earlier, later) ==
    /\ earlier.total <= later.total
    /\ earlier.inserted <= later.inserted
    /\ earlier.skipped <= later.skipped
    /\ earlier.errors <= later.errors

\* C38: during an import every progress callback, and the summary returned,
\* has total = inserted + skipped + errors; no counter goes down from one
\* callback to the next; the first callback reports zeros and the last one
\* the summary that is returned.
C38_ProgressIsConsistent ==
    (pc = "progress" /\ output # <<>>) =>
        LET progress == output[1].progress
        IN  /\ \A k \in 1..Len(progress) : Balanced(progress[k])
            /\ \A k \in 1..(Len(progress) - 1) : NotBelow(progress[k], progress[k + 1])
            /\ progress # <<>> => progress[1] = NoSummary
            /\ output[1].ok =>
                  /\ Balanced(output[1].summary)
                  /\ Len(progress) >= 2
                  /\ progress[Len(progress)] = output[1].summary

\* an import of a game and of a chunk without a game, with a callback after
\* each
C38_Witness ==
    /\ pc = "progress" /\ output # <<>> /\ output[1].ok
    /\ Len(output[1].progress) = 4
    /\ output[1].summary.inserted = 1
    /\ output[1].summary.errors = 1

----------------------------------------------------------------------------
(* keywords with something else in the place of their number (SpecParse)    *)

\* the line without the n tokens from position p on
RemoveAt(tokens, p, n) ==
    SubSeq(tokens, 1, p - 1) \o SubSeq(tokens, p + n, Len(tokens))

\* the positions where depth or multipv is read as a keyword and the token
\* after it is no unsigned integer
BadCounts(tokens) ==
    {p \in ReadAsKeyword(tokens, "depth", 1) \cup ReadAsKeyword(tokens, "multipv", 1) :
        ParseU32(tokens[p + 1]) = None}

\* the positions where "score <kind>" is read and the token after it is no
\* integer
BadScores(tokens, kind) ==
    {p \in ReadAsKeyword(tokens, "score", 2) :
        tokens[p + 1] = kind /\ ParseI32(tokens[p + 2]) = None}

\* C39: depth or multipv followed by a token that is no unsigned integer
\* takes that token with it and leaves the record as it was, so the line
\* parses as it does without the two tokens, also when the token is a
\* keyword; "score cp" or "score mate" followed by a token that is no
\* integer takes it too and sets that score to absent, leaving the rest.
C39_InvalidArgumentsConsumed ==
    (Parsed /\ HasMarker(input)) =>
        /\ \A p \in BadCounts(input) :
              /\ ScannedBefore(input, p + 2) = ScannedBefore(input, p)
              /\ output[1] = parse_info_line(RemoveAt(input, p, 2))
        /\ \A p \in BadScores(input, "cp") :
              /\ ScannedBefore(input, p + 3) =
                    [ScannedBefore(input, p) EXCEPT !.score_cp = None]
              /\ ParseTokens(input, 1, NoInfo) =
                    ParseTokens(input, p + 3, ScannedBefore(input, p + 3))
        /\ \A p \in BadScores(input, "mate") :
              /\ ScannedBefore(input, p + 3) =
                    [ScannedBefore(input, p) EXCEPT !.score_mate = None]
              /\ ParseTokens(input, 1, NoInfo) =
                    ParseTokens(input, p + 3, ScannedBefore(input, p + 3))

\* a centipawn score is lost to a second "score cp" whose third token is
\* the pv keyword, which is swallowed: the moves are those of the second pv
C39_ScoreLost ==
    /\ Parsed
    /\ input = <<"info", "score", "cp", "16", "score", "cp", "pv", "pv", "nodes">>
    /\ output[1] = Some([NoInfo EXCEPT !.pv = <<"nodes">>])

\* a depth is kept and the pv keyword after the second depth is swallowed
C39_Witness ==
    /\ Parsed
    /\ input = <<"info", "depth", "16", "depth", "pv", "16">>
    /\ BadCounts(input) = {4}
    /\ output[1] = Some([NoInfo EXCEPT !.depth = Some(16)])

====
